---------------------------- MODULE Spec2Model ----------------------------
(***************************************************************************)
(* Tic-tac-toe with lobbies: the authoritative room engine of server.js    *)
(* (socket.io event handlers over the in-memory room store) and the rules  *)
(* evaluator shared by the server and the browser client.                  *)
(*                                                                         *)
(* JavaScript values are modelled as follows.  null and undefined are the  *)
(* string "null" (both are falsy and the code only tests truthiness or     *)
(* strict equality with a mark).  Marks are the strings "X" and "O".  A    *)
(* lobby id is a sequence of one-character strings, so that trim() is a    *)
(* computation; the empty sequence is the (falsy) empty string, and also   *)
(* stands for an undefined socket.data.lobbyId, which the code only tests  *)
(* with !lobbyId.  A board is a function on 0..8.  room.players is a JS    *)
(* Set, which keeps insertion order: a sequence without duplicates.        *)
(* room.createdAt is a timestamp that no code reads; it is left out.       *)
(***************************************************************************)
EXTENDS Integers, Sequences, FiniteSets, TLC

VARIABLES
    rooms,      \* server.js `rooms`: lobby id -> room, DOMAIN = existing keys
    sdata,      \* socket.data of every socket: [lobbyId, mark]
    adapter,    \* io.sockets.adapter.rooms: lobby id -> set of joined sockets
    connected,  \* which sockets have an open connection
    timers,     \* pending disposal timeouts, per lobby id
    emits,      \* messages emitted by the handler that ran last
    inbox,      \* events received and not yet handled, oldest first
    wire,       \* events emitted to the browser client, not yet received
    wBoard,     \* rules evaluator under test: the input board
    wResult,    \* rules evaluator under test: what it returned
    \* the browser client (script.js), local play
    gameMode,               \* "pvc" or "pvp"
    difficulty,             \* "easy", "medium" or "hard"
    currentPlayer,
    playerXStartsFirst,
    computerStartsFirst,
    onlineMode,
    currentGameBoard,
    isGameCurrentlyActive,
    isProcessingMove,
    gameStatistics,
    clicksEnabled,          \* the cells carry the handlePlayerMove listener
    timeouts,               \* pending setTimeout callbacks, in firing order
    \* the browser client (script.js), multiplayer wiring
    socket,                 \* the client's socket, or null
    currentLobbyId,
    myMark

serverVars == <<rooms, sdata, adapter, connected, timers, emits>>
winnerVars == <<wBoard, wResult>>
localVars ==
    <<gameMode, difficulty, currentPlayer, playerXStartsFirst,
      computerStartsFirst, onlineMode, currentGameBoard, isGameCurrentlyActive,
      isProcessingMove, gameStatistics, clicksEnabled, timeouts>>
clientVars == <<socket, currentLobbyId, myMark>>
netVars == <<inbox>>
nonServerVars == <<netVars, winnerVars, localVars, clientVars>>
nonLocalVars == <<serverVars, netVars, wire, winnerVars, clientVars>>
nonWinnerVars == <<serverVars, netVars, wire, localVars, clientVars>>
vars == <<serverVars, netVars, wire, winnerVars, localVars, clientVars>>

Null == "null"
Marks == {"X", "O"}
Cells == 0..8
Cell == {Null, "X", "O"}

(***************************************************************************)
(* Bounds of the model.                                                    *)
(***************************************************************************)
\* counted games a room may finish between two resets of its statistics
MaxGames == 1
\* counted games the local engine may finish between two statistics resets
MaxLocalGames == 2
\* setTimeout callbacks that may be pending in the browser at once
MaxTimeouts == 3
\* makeMove events that may wait at the server at once
MaxInbox == 2
\* empty cells of the boards the search of the hard tier is run on
MaxEmpty == 5
\* events in flight to the browser client
MaxWire == 3

Sockets == {"s1", "s2", "s3"}
LobbyIds == {<<"A">>, <<"B">>}
NoLobby == <<>>

(***************************************************************************)
(* Rules evaluator.                                                        *)
(***************************************************************************)
EmptyBoard == [i \in Cells |-> Null]

\* server.js: const wins = [...]
wins ==
    << <<0, 1, 2>>, <<3, 4, 5>>, <<6, 7, 8>>,
       <<0, 3, 6>>, <<1, 4, 7>>, <<2, 5, 8>>,
       <<0, 4, 8>>, <<2, 4, 6>> >>

\* script.js: const winningCombinations = [...]
winningCombinations ==
    << <<0, 1, 2>>, <<3, 4, 5>>, <<6, 7, 8>>,
       <<0, 3, 6>>, <<1, 4, 7>>, <<2, 5, 8>>,
       <<0, 4, 8>>, <<2, 4, 6>> >>

\* the loop `for (const [a, b, c] of lines)` from line k on: the first line
\* whose three cells hold the same truthy value decides
RECURSIVE ScanLines(_, _, _)
ScanLines(lines, board, k) ==
    IF k > Len(lines) THEN Null
    ELSE LET a == lines[k][1]
             b == lines[k][2]
             c == lines[k][3]
         IN  IF board[a] # Null /\ board[a] = board[b] /\ board[a] = board[c]
             THEN board[a]
             ELSE ScanLines(lines, board, k + 1)

\* the same loop without the truthiness test `board[a] &&`
RECURSIVE ScanLinesNoTruthy(_, _, _)
ScanLinesNoTruthy(lines, board, k) ==
    IF k > Len(lines) THEN Null
    ELSE LET a == lines[k][1]
             b == lines[k][2]
             c == lines[k][3]
         IN  IF board[a] = board[b] /\ board[a] = board[c]
             THEN board[a]
             ELSE ScanLinesNoTruthy(lines, board, k + 1)

checkWinnerNoTruthy(board) == ScanLinesNoTruthy(wins, board, 1)

\* server.js checkWinner
checkWinner(board) == ScanLines(wins, board, 1)

\* script.js checkWinner
clientCheckWinner(board) == ScanLines(winningCombinations, board, 1)

\* board.every((c) => c !== null)
BoardFull(board) == \A i \in Cells : board[i] # Null

(***************************************************************************)
(* Room store.                                                             *)
(***************************************************************************)
ZeroStats == [xWins |-> 0, oWins |-> 0, draws |-> 0, totalGames |-> 0]

newRoomState ==
    [board |-> EmptyBoard, currentPlayer |-> "X", isActive |-> TRUE,
     stats |-> ZeroStats]

\* a store that keeps the state of the requested lobby only
getRoomSingleSession(rs, lobbyId) ==
    [l \in DOMAIN rs \cup {lobbyId} |->
        IF l = lobbyId /\ l \in DOMAIN rs
        THEN rs[l]
        ELSE [board |-> EmptyBoard, currentPlayer |-> "X", isActive |-> TRUE,
              stats |-> ZeroStats, players |-> <<>>]]

\* the room store after getRoom(lobbyId): the room is created when missing
getRoom(rs, lobbyId) ==
    IF lobbyId \in DOMAIN rs THEN rs
    ELSE [l \in DOMAIN rs \cup {lobbyId} |->
            IF l = lobbyId
            THEN [board |-> newRoomState.board,
                  currentPlayer |-> newRoomState.currentPlayer,
                  isActive |-> newRoomState.isActive,
                  stats |-> newRoomState.stats,
                  players |-> <<>>]
            ELSE rs[l]]

\* Set.prototype.add on an insertion-ordered set
SetAdd(seq, x) ==
    IF \E i \in 1..Len(seq) : seq[i] = x THEN seq ELSE Append(seq, x)

\* Set.prototype.delete
SetDelete(seq, x) == SelectSeq(seq, LAMBDA y : y # x)

(***************************************************************************)
(* String helpers: (lobbyId || "").trim()                                  *)
(***************************************************************************)
Whitespace == {" "}

RECURSIVE TrimStart(_)
TrimStart(s) ==
    IF s # <<>> /\ Head(s) \in Whitespace THEN TrimStart(Tail(s)) ELSE s

RECURSIVE TrimEnd(_)
TrimEnd(s) ==
    IF s # <<>> /\ s[Len(s)] \in Whitespace
    THEN TrimEnd(SubSeq(s, 1, Len(s) - 1))
    ELSE s

Trim(s) == TrimEnd(TrimStart(s))

\* a lobbyId argument: absent (undefined) or a string
Undefined == [defined |-> FALSE, text |-> <<>>]
Str(s) == [defined |-> TRUE, text |-> s]

\* a missing lobbyId that falls back to a default lobby
OrDefaultLobby(arg) == IF arg.defined THEN arg.text ELSE <<"A">>

\* lobbyId || ""
OrEmpty(arg) == IF arg.defined /\ arg.text # <<>> THEN arg.text ELSE <<>>

(***************************************************************************)
(* Messages.                                                               *)
(***************************************************************************)
\* a snapshot that never tells the receiver its mark
RoomStateMsgNoMark(to, room, yourMark, lobbyId) ==
    [ev |-> "roomState", to |-> to, room |-> room, yourMark |-> Null,
     lobbyId |-> lobbyId]

RoomStateMsg(to, room, yourMark, lobbyId) ==
    [ev |-> "roomState", to |-> to, room |-> room, yourMark |-> yourMark,
     lobbyId |-> lobbyId]

ErrorMsg(to, msg) == [ev |-> "errorMsg", to |-> to, msg |-> msg]

PlayerJoinedMsg(to, playerId) ==
    [ev |-> "playerJoined", to |-> to, playerId |-> playerId]

(***************************************************************************)
(* makeMove arguments: Number.isInteger(index) and its value               *)
(***************************************************************************)
IntIdx(n) == [int |-> TRUE, v |-> n]
\* any payload that is not an integer: a string, a fraction, undefined
NonInt == [int |-> FALSE, v |-> 0]

\* !Number.isInteger(index) || index < 0 || index > 8
BadIndex(index) == ~index.int \/ index.v < 0 \/ index.v > 8

\* socket.emit("makeMove", { index }) of socket s, as the server receives it
MakeMoveEvent(s, index) == [ev |-> "makeMove", s |-> s, index |-> index]

\* socket.emit("joinLobby", { lobbyId }) of socket s
JoinLobbyEvent(s, lobbyId) ==
    [ev |-> "joinLobby", s |-> s, arg |-> Str(lobbyId)]

(***************************************************************************)
(* Rules evaluator under test.                                             *)
(***************************************************************************)
NotRun == [done |-> FALSE, value |-> Null]
Returned(v) == [done |-> TRUE, value |-> v]

InitWinnerIdle ==
    /\ wBoard = EmptyBoard
    /\ wResult = [server |-> NotRun, client |-> NotRun]

\* every board of {empty, X, O}^9 is an input
InitWinner ==
    /\ wBoard \in [Cells -> Cell]
    /\ wResult = [server |-> NotRun, client |-> NotRun]

EvalServerWinner ==
    /\ ~wResult.server.done
    /\ wResult' = [wResult EXCEPT !.server = Returned(checkWinner(wBoard))]
    /\ UNCHANGED <<wBoard, nonWinnerVars>>

EvalClientWinner ==
    /\ ~wResult.client.done
    /\ wResult' = [wResult EXCEPT !.client = Returned(clientCheckWinner(wBoard))]
    /\ UNCHANGED <<wBoard, nonWinnerVars>>

(***************************************************************************)
(* The browser client, local play.                                         *)
(***************************************************************************)
ZeroStatistics ==
    [player |-> 0, computer |-> 0, playerX |-> 0, playerO |-> 0, draws |-> 0,
     totalGames |-> 0]

\* let socket = null; let currentLobbyId = null; let myMark = null
ClientOffline ==
    /\ socket = Null
    /\ currentLobbyId = NoLobby
    /\ myMark = Null

\* script.js after it has loaded: the globals' initial values and the
\* creategameBoard() call of the last line, in pvc mode with the player first
InitLocal ==
    /\ gameMode = "pvc"
    /\ difficulty = "medium"
    /\ currentPlayer = "X"
    /\ playerXStartsFirst = TRUE
    /\ computerStartsFirst = FALSE
    /\ onlineMode = FALSE
    /\ ClientOffline
    /\ currentGameBoard = EmptyBoard
    /\ isGameCurrentlyActive = TRUE
    /\ isProcessingMove = FALSE
    /\ gameStatistics = ZeroStatistics
    /\ clicksEnabled = TRUE
    /\ timeouts = <<>>

\* winningCombinations.some((combo) => combo.every((i) => board[i] === player))
determineWinner(board, player) ==
    \E k \in 1..Len(winningCombinations) :
        \A j \in 1..3 : board[winningCombinations[k][j]] = player

\* currentGameBoard.every((cell) => cell !== null)
isGameOver(board) == \A i \in Cells : board[i] # Null

\* board.every((cell) => cell !== null)
isBoardFull(board) == \A i \in Cells : board[i] # Null

\* board.map((value, index) => value === null ? index : null).filter(...):
\* the empty cells in ascending order
getEmptyIndices(board) ==
    SelectSeq(<<0, 1, 2, 3, 4, 5, 6, 7, 8>>, LAMBDA i : board[i] = Null)

\* a move index that is null or undefined
NoIndex == -1

\* positions.filter((position) => position === v).length for line k
CountIn(board, k, v) ==
    Cardinality({j \in 1..3 : board[winningCombinations[k][j]] = v})

\* the first empty cell of line k, in the order the line lists its cells
RECURSIVE FirstEmptyOf(_, _, _)
FirstEmptyOf(board, k, j) ==
    IF j > 3 THEN NoIndex
    ELSE IF board[winningCombinations[k][j]] = Null
    THEN winningCombinations[k][j]
    ELSE FirstEmptyOf(board, k, j + 1)

\* the loop of findCriticalMove from line k on
RECURSIVE ScanCritical(_, _, _, _)
ScanCritical(board, targetPlayer, count, k) ==
    IF k > Len(winningCombinations) THEN NoIndex
    ELSE IF CountIn(board, k, targetPlayer) = count
            /\ CountIn(board, k, Null) = 1
    THEN FirstEmptyOf(board, k, 1)
    ELSE ScanCritical(board, targetPlayer, count, k + 1)

\* findCriticalMove(targetPlayer, count) on the board it reads
findCriticalMove(board, targetPlayer, count) ==
    ScanCritical(board, targetPlayer, count, 1)

\* difficulty "easy": emptyIndices[Math.floor(Math.random() * length)]
\* a random choice among all nine cells
EasyMovesAnyCell(board) == Cells

\* difficulty "easy": any element of emptyIndices
EasyMoves(board) == {i \in Cells : board[i] = Null}

\* a positional choice that tries the sides before the corners
PositionalSidesFirst(board) ==
    LET freeCorners == {i \in {0, 2, 6, 8} : board[i] = Null}
        freeSides == {i \in {1, 3, 5, 7} : board[i] = Null}
    IN  IF board[4] = Null THEN {4}
        ELSE IF freeSides # {} THEN freeSides
        ELSE IF freeCorners # {} THEN freeCorners
        ELSE {NoIndex}

\* the cells center, corners, sides pick from; an empty list of sides gives
\* an undefined index
Positional(board) ==
    LET freeCorners == {i \in {0, 2, 6, 8} : board[i] = Null}
        freeSides == {i \in {1, 3, 5, 7} : board[i] = Null}
    IN  IF board[4] = Null THEN {4}
        ELSE IF freeCorners # {} THEN freeCorners
        ELSE IF freeSides # {} THEN freeSides
        ELSE {NoIndex}

\* a medium tier that blocks before it completes its own line
MediumMovesBlockFirst(board) ==
    LET block == findCriticalMove(board, "X", 2) IN
    IF block # NoIndex THEN {block}
    ELSE LET win == findCriticalMove(board, "O", 2) IN
         IF win # NoIndex THEN {win}
         ELSE Positional(board)

\* difficulty "medium": complete an O line, else block an X line, else play
\* by position; the set holds every index Math.random() can select
MediumMoves(board) ==
    LET win == findCriticalMove(board, "O", 2) IN
    IF win # NoIndex THEN {win}
    ELSE LET block == findCriticalMove(board, "X", 2) IN
         IF block # NoIndex THEN {block}
         ELSE Positional(board)

\* Infinity, above every score minimax can return
Infinity == 1000

RECURSIVE minimax(_, _, _, _)
RECURSIVE ScoreMoves(_, _, _, _, _, _)

\* a loop body that leaves the trial mark on the board
keepTrialMark(board, i) == board

\* board[emptyIndices[i]] = null, after the recursive call
takeBackTrialMark(board, i) == [board EXCEPT ![i] = Null]

\* the first loop of minimax from the i-th empty cell on, run on the array
\* `board` it shares with its caller: write the mark of the side to move,
\* score the position, take the mark back; it yields the moves scored and
\* the array as the loop leaves it
ScoreMoves(board, emptyIndices, i, depth, isMaximizing, maxPlayer) ==
    IF i > Len(emptyIndices) THEN [moves |-> <<>>, board |-> board]
    ELSE LET minPlayer == IF maxPlayer = "X" THEN "O" ELSE "X"
             trial == [board EXCEPT ![emptyIndices[i]] =
                          IF isMaximizing THEN maxPlayer ELSE minPlayer]
             result == minimax(trial, depth + 1, ~isMaximizing, maxPlayer)
             rest == ScoreMoves(takeBackTrialMark(result.board, emptyIndices[i]),
                                emptyIndices, i + 1, depth, isMaximizing,
                                maxPlayer)
         IN  [moves |-> <<[index |-> emptyIndices[i], score |-> result.score]>>
                        \o rest.moves,
              board |-> rest.board]

\* a second loop in which an equal score replaces the best one too
RECURSIVE PickBestLast(_, _, _, _, _)
PickBestLast(moves, i, bestScore, bestMove, isMaximizing) ==
    IF i > Len(moves) THEN bestMove
    ELSE IF \/ isMaximizing /\ moves[i].score >= bestScore
            \/ ~isMaximizing /\ moves[i].score <= bestScore
    THEN PickBestLast(moves, i + 1, moves[i].score, i, isMaximizing)
    ELSE PickBestLast(moves, i + 1, bestScore, bestMove, isMaximizing)

\* the second loop of minimax from move i on: a strictly better score
\* replaces the best one, so the first of equal scores stays
RECURSIVE PickBest(_, _, _, _, _)
PickBest(moves, i, bestScore, bestMove, isMaximizing) ==
    IF i > Len(moves) THEN bestMove
    ELSE IF \/ isMaximizing /\ moves[i].score > bestScore
            \/ ~isMaximizing /\ moves[i].score < bestScore
    THEN PickBest(moves, i + 1, moves[i].score, i, isMaximizing)
    ELSE PickBest(moves, i + 1, bestScore, bestMove, isMaximizing)

\* minimax(board, depth, isMaximizing, maxPlayer); a terminal position
\* returns a score and no index; `board` is the array as the call leaves it
minimax(board, depth, isMaximizing, maxPlayer) ==
    LET minPlayer == IF maxPlayer = "X" THEN "O" ELSE "X"
        winner == clientCheckWinner(board)
    IN  IF winner = maxPlayer
        THEN [index |-> NoIndex, score |-> 10 - depth, board |-> board]
        ELSE IF winner = minPlayer
        THEN [index |-> NoIndex, score |-> depth - 10, board |-> board]
        ELSE IF isBoardFull(board)
        THEN [index |-> NoIndex, score |-> 0, board |-> board]
        ELSE LET scored == ScoreMoves(board, getEmptyIndices(board), 1, depth,
                                      isMaximizing, maxPlayer)
                 bestMove == PickBest(scored.moves, 1,
                                      IF isMaximizing THEN -Infinity
                                      ELSE Infinity,
                                      0, isMaximizing)
             IN  [index |-> scored.moves[bestMove].index,
                  score |-> scored.moves[bestMove].score,
                  board |-> scored.board]

\* the index handleComputerMove selects under the difficulty set, with the
\* board as the selection leaves it: only minimax writes into it
ComputerChoices(level, board) ==
    IF level = "easy" THEN {[index |-> i, board |-> board] : i \in EasyMoves(board)}
    ELSE IF level = "medium"
    THEN {[index |-> i, board |-> board] : i \in MediumMoves(board)}
    ELSE IF level = "hard"
    THEN LET result == minimax(board, 0, TRUE, "O") IN
         {[index |-> result.index, board |-> result.board]}
    ELSE {[index |-> NoIndex, board |-> board]}


\* a timeout of 1000 ms fires after every pending one: no delay is longer
After1000(queue, callback) == Append(queue, callback)

\* a timeout of 500 ms fires after the pending 500 ms ones and before, between
\* or after the pending 1000 ms ones, depending on when those were set
After500(queue, callback) ==
    LET last500 ==
            IF \E k \in 1..Len(queue) : queue[k].delay = 500
            THEN CHOOSE k \in 1..Len(queue) :
                    /\ queue[k].delay = 500
                    /\ \A j \in (k + 1)..Len(queue) : queue[j].delay # 500
            ELSE 0
    IN  {SubSeq(queue, 1, p) \o <<callback>> \o SubSeq(queue, p + 1, Len(queue)) :
            p \in last500..Len(queue)}

EvalComputerCallback ==
    [kind |-> "evalComputer", delay |-> 1000, playerMark |-> "O"]

EvalPlayerCallback(playerMark) ==
    [kind |-> "evalPlayer", delay |-> 1000, playerMark |-> playerMark]

ComputerCallback(delay) ==
    [kind |-> "computer", delay |-> delay, playerMark |-> "O"]

\* a reset that keeps the marks on the board
creategameBoardKeepMarks(mode, online, xFirst, compFirst, queue) ==
    /\ currentGameBoard' = currentGameBoard
    /\ isGameCurrentlyActive' = TRUE
    /\ isProcessingMove' = FALSE
    /\ currentPlayer' =
          IF mode = "pvp"
          THEN (IF online THEN "X" ELSE IF xFirst THEN "X" ELSE "O")
          ELSE "X"
    /\ clicksEnabled' =
          IF mode = "pvp" THEN ~online ELSE ~compFirst
    /\ timeouts' =
          IF mode # "pvp" /\ compFirst
          THEN After1000(queue, ComputerCallback(1000))
          ELSE queue
    /\ (mode # "pvp" /\ compFirst) => Len(queue) < MaxTimeouts

\* creategameBoard() under the settings it reads, with `queue` the timeouts
\* pending when it is called
creategameBoard(mode, online, xFirst, compFirst, queue) ==
    /\ currentGameBoard' = EmptyBoard
    /\ isGameCurrentlyActive' = TRUE
    /\ isProcessingMove' = FALSE
    /\ currentPlayer' =
          IF mode = "pvp"
          THEN (IF online THEN "X" ELSE IF xFirst THEN "X" ELSE "O")
          ELSE "X"
    /\ clicksEnabled' =
          IF mode = "pvp" THEN ~online ELSE ~compFirst
    /\ timeouts' =
          IF mode # "pvp" /\ compFirst
          THEN After1000(queue, ComputerCallback(1000))
          ELSE queue
    \* bound of the model: no more than MaxTimeouts callbacks are pending
    /\ (mode # "pvp" /\ compFirst) => Len(queue) < MaxTimeouts

\* toggleModeBtn click: toggleGameMode(), offline
ToggleGameMode ==
    /\ ~onlineMode
    /\ gameMode' = IF gameMode = "pvc" THEN "pvp" ELSE "pvc"
    /\ gameStatistics' = ZeroStatistics
    /\ creategameBoard(gameMode', onlineMode, playerXStartsFirst,
                       computerStartsFirst, timeouts)
    /\ UNCHANGED <<difficulty, playerXStartsFirst, computerStartsFirst,
                   onlineMode>>
    /\ UNCHANGED nonLocalVars

\* toggleStartBtn click in pvp mode: toggleStarter() -> togglePvPStarter()
TogglePvPStarter ==
    /\ ~onlineMode
    /\ gameMode = "pvp"
    /\ playerXStartsFirst' = ~playerXStartsFirst
    /\ creategameBoard(gameMode, onlineMode, playerXStartsFirst',
                       computerStartsFirst, timeouts)
    /\ UNCHANGED <<difficulty, gameMode, computerStartsFirst, onlineMode,
                   gameStatistics>>
    /\ UNCHANGED nonLocalVars

\* toggleStartBtn click in pvc mode: toggleStarter() -> toggleComputerStarter()
ToggleComputerStarter ==
    /\ ~onlineMode
    /\ gameMode = "pvc"
    /\ computerStartsFirst' = ~computerStartsFirst
    /\ creategameBoard(gameMode, onlineMode, playerXStartsFirst,
                       computerStartsFirst', timeouts)
    /\ UNCHANGED <<difficulty, gameMode, playerXStartsFirst, onlineMode,
                   gameStatistics>>
    /\ UNCHANGED nonLocalVars

\* difficultyBtn click: toggleDifficulty(); the button shows in pvc mode
ToggleDifficulty ==
    /\ ~onlineMode
    /\ gameMode = "pvc"
    /\ difficulty' = IF difficulty = "easy" THEN "medium"
                     ELSE IF difficulty = "medium" THEN "hard"
                     ELSE "easy"
    /\ UNCHANGED <<gameMode, currentPlayer, playerXStartsFirst,
                   computerStartsFirst, onlineMode, currentGameBoard,
                   isGameCurrentlyActive, isProcessingMove, gameStatistics,
                   clicksEnabled, timeouts>>
    /\ UNCHANGED nonLocalVars

\* newGameBtn click, offline
NewGameClick ==
    /\ ~onlineMode
    /\ creategameBoard(gameMode, onlineMode, playerXStartsFirst,
                       computerStartsFirst, timeouts)
    /\ UNCHANGED <<difficulty, gameMode, playerXStartsFirst, computerStartsFirst,
                   onlineMode, gameStatistics>>
    /\ UNCHANGED nonLocalVars

\* resetStatsBtn click, offline
ResetStatsClick ==
    /\ ~onlineMode
    /\ gameStatistics' = ZeroStatistics
    /\ UNCHANGED <<difficulty, gameMode, currentPlayer, playerXStartsFirst,
                   computerStartsFirst, onlineMode, currentGameBoard,
                   isGameCurrentlyActive, isProcessingMove, clicksEnabled,
                   timeouts>>
    /\ UNCHANGED nonLocalVars

\* a first return that lets a click on an occupied cell through
clickIgnoredUnlessOccupied(index) ==
    ~isGameCurrentlyActive \/ isProcessingMove

\* if (!isGameCurrentlyActive || currentGameBoard[index] || isProcessingMove)
\*   return;
clickIgnored(index) ==
    \/ ~isGameCurrentlyActive
    \/ currentGameBoard[index] # Null
    \/ isProcessingMove

\* an online return that forgets whose turn it is
onlineClickIgnoredNoTurn == socket = Null

\* if (currentPlayer !== myMark || !socket) return;
onlineClickIgnored == currentPlayer # myMark \/ socket = Null

\* a click on cell `index` reaches handlePlayerMove when the listener is on
\* the cell
HandlePlayerMove(index) ==
    /\ clicksEnabled
    /\ IF clickIgnored(index)
       THEN UNCHANGED <<localVars, inbox>>
       ELSE IF onlineMode
       THEN IF onlineClickIgnored
            THEN UNCHANGED <<localVars, inbox>>
            ELSE /\ Len(inbox) < MaxInbox
                 /\ isProcessingMove' = TRUE
                 /\ clicksEnabled' = FALSE
                 /\ inbox' = Append(inbox, MakeMoveEvent(socket, IntIdx(index)))
                 /\ UNCHANGED <<difficulty, gameMode, currentPlayer,
                                playerXStartsFirst, computerStartsFirst,
                                onlineMode, currentGameBoard,
                                isGameCurrentlyActive, gameStatistics, timeouts>>
       ELSE LET playerMark == IF gameMode = "pvp" THEN currentPlayer ELSE "X" IN
            /\ Len(timeouts) < MaxTimeouts
            /\ isProcessingMove' = TRUE
            /\ clicksEnabled' = FALSE
            /\ currentGameBoard' = [currentGameBoard EXCEPT ![index] = playerMark]
            /\ timeouts' = After1000(timeouts, EvalPlayerCallback(playerMark))
            /\ UNCHANGED <<difficulty, gameMode, currentPlayer, playerXStartsFirst,
                           computerStartsFirst, onlineMode,
                           isGameCurrentlyActive, gameStatistics, inbox>>
    /\ UNCHANGED <<serverVars, wire, winnerVars, clientVars>>

\* the callback handlePlayerMove sets for 1000 ms later
EvalPlayerMove ==
    /\ timeouts # <<>>
    /\ Head(timeouts).kind = "evalPlayer"
    /\ LET playerMark == Head(timeouts).playerMark
           rest == Tail(timeouts)
       IN  IF determineWinner(currentGameBoard, playerMark)
           THEN /\ gameStatistics.totalGames < MaxLocalGames
                /\ gameStatistics' =
                     [(IF gameMode = "pvp"
                       THEN (IF playerMark = "X"
                             THEN [gameStatistics EXCEPT !.playerX = @ + 1]
                             ELSE [gameStatistics EXCEPT !.playerO = @ + 1])
                       ELSE [gameStatistics EXCEPT !.player = @ + 1])
                      EXCEPT !.totalGames = @ + 1]
                /\ isGameCurrentlyActive' = FALSE
                /\ timeouts' = rest
                /\ UNCHANGED <<currentPlayer, isProcessingMove, clicksEnabled>>
           ELSE IF isGameOver(currentGameBoard)
           THEN /\ gameStatistics.totalGames < MaxLocalGames
                /\ gameStatistics' =
                     [gameStatistics EXCEPT !.draws = @ + 1, !.totalGames = @ + 1]
                /\ isGameCurrentlyActive' = FALSE
                /\ timeouts' = rest
                /\ UNCHANGED <<currentPlayer, isProcessingMove, clicksEnabled>>
           ELSE IF gameMode = "pvp"
           THEN /\ currentPlayer' = IF currentPlayer = "X" THEN "O" ELSE "X"
                /\ isProcessingMove' = FALSE
                /\ clicksEnabled' = TRUE
                /\ timeouts' = rest
                /\ UNCHANGED <<isGameCurrentlyActive, gameStatistics>>
           ELSE /\ timeouts' \in After500(rest, ComputerCallback(500))
                /\ UNCHANGED <<currentPlayer, isProcessingMove, clicksEnabled,
                               isGameCurrentlyActive, gameStatistics>>
    /\ UNCHANGED <<difficulty, gameMode, playerXStartsFirst, computerStartsFirst,
                   onlineMode, currentGameBoard>>
    /\ UNCHANGED nonLocalVars

\* early returns that forget the online test
computerMoveSkippedLocalOnly ==
    \/ ~isGameCurrentlyActive
    \/ Len(getEmptyIndices(currentGameBoard)) = 0

\* the early returns of handleComputerMove
computerMoveSkipped ==
    \/ onlineMode
    \/ ~isGameCurrentlyActive
    \/ Len(getEmptyIndices(currentGameBoard)) = 0

\* a pending handleComputerMove call runs: the move is selected and placed,
\* its evaluation is set for 1000 ms later
HandleComputerMove ==
    /\ timeouts # <<>>
    /\ Head(timeouts).kind = "computer"
    /\ IF computerMoveSkipped
       THEN /\ timeouts' = Tail(timeouts)
            /\ UNCHANGED currentGameBoard
       ELSE \E choice \in ComputerChoices(difficulty, currentGameBoard) :
               \* a write at an undefined index changes no cell
               /\ currentGameBoard' =
                     IF choice.index \in Cells
                     THEN [choice.board EXCEPT ![choice.index] = "O"]
                     ELSE choice.board
               /\ timeouts' = After1000(Tail(timeouts), EvalComputerCallback)
    /\ UNCHANGED <<difficulty, gameMode, currentPlayer, playerXStartsFirst,
                   computerStartsFirst, onlineMode, isGameCurrentlyActive,
                   isProcessingMove, gameStatistics, clicksEnabled>>
    /\ UNCHANGED nonLocalVars

\* the callback handleComputerMove sets for 1000 ms later
EvalComputerMove ==
    /\ timeouts # <<>>
    /\ Head(timeouts).kind = "evalComputer"
    /\ timeouts' = Tail(timeouts)
    /\ IF determineWinner(currentGameBoard, "O")
       THEN /\ gameStatistics.totalGames < MaxLocalGames
            /\ gameStatistics' =
                  [gameStatistics EXCEPT !.computer = @ + 1,
                                         !.totalGames = @ + 1]
            /\ isGameCurrentlyActive' = FALSE
            /\ UNCHANGED <<isProcessingMove, clicksEnabled>>
       ELSE IF isGameOver(currentGameBoard)
       THEN /\ gameStatistics.totalGames < MaxLocalGames
            /\ gameStatistics' =
                  [gameStatistics EXCEPT !.draws = @ + 1, !.totalGames = @ + 1]
            /\ isGameCurrentlyActive' = FALSE
            /\ UNCHANGED <<isProcessingMove, clicksEnabled>>
       ELSE /\ isProcessingMove' = FALSE
            /\ clicksEnabled' = TRUE
            /\ UNCHANGED <<isGameCurrentlyActive, gameStatistics>>
    /\ UNCHANGED <<difficulty, gameMode, currentPlayer, playerXStartsFirst,
                   computerStartsFirst, onlineMode, currentGameBoard>>
    /\ UNCHANGED nonLocalVars

(***************************************************************************)
(* Initial state: the server has started, the sockets are connected and   *)
(* none has sent an event.                                                 *)
(***************************************************************************)
NoData == [lobbyId |-> NoLobby, mark |-> Null]

\* the events of `msgs` that go on the wire to the browser client: those sent
\* to its socket or to a broadcast group it is in
Deliver(queue, msgs) ==
    IF socket = Null THEN queue
    ELSE queue \o SelectSeq(msgs, LAMBDA m : socket \in m.to)

\* the events the handler emitted are on their way
Delivered ==
    /\ wire' = Deliver(wire, emits')
    \* bound of the model: no more than MaxWire events are in flight
    /\ Len(wire') <= MaxWire

ServerIdle ==
    /\ rooms = <<>>
    /\ sdata = [s \in Sockets |-> NoData]
    /\ adapter = [l \in LobbyIds |-> {}]
    /\ connected = [s \in Sockets |-> TRUE]
    /\ timers = [l \in LobbyIds |-> 0]
    /\ emits = <<>>
    /\ inbox = <<>>
    /\ wire = <<>>

Init ==
    /\ ServerIdle
    /\ InitWinnerIdle
    /\ InitLocal

(***************************************************************************)
(* The browser client in online mode.  Its connection is the socket       *)
(* ClientSocket of the server.                                             *)
(***************************************************************************)
ClientSocket == "s1"

\* joinLobbyBtn click with the trimmed input `lobbyId`: joinLobby(lobbyId)
JoinLobbyClick(lobbyId) ==
    /\ lobbyId # <<>>
    /\ ~(onlineMode /\ currentLobbyId = lobbyId)
    /\ connected[ClientSocket]
    /\ Len(inbox) < MaxInbox
    /\ socket' = ClientSocket
    /\ onlineMode' = TRUE
    /\ gameMode' = "pvp"
    /\ currentLobbyId' = lobbyId
    /\ creategameBoard(gameMode', onlineMode', playerXStartsFirst,
                       computerStartsFirst, timeouts)
    /\ inbox' = Append(inbox, JoinLobbyEvent(ClientSocket, lobbyId))
    /\ UNCHANGED <<difficulty, playerXStartsFirst, computerStartsFirst,
                   gameStatistics, myMark>>
    /\ UNCHANGED <<serverVars, wire, winnerVars>>

\* a render that attaches the click listeners whenever the room is active
renderFromRoomStateAnyTurn(room, mark) ==
    [currentGameBoard |-> [i \in Cells |-> room.board[i]],
     isGameCurrentlyActive |-> room.isActive,
     currentPlayer |-> room.currentPlayer,
     isProcessingMove |-> FALSE,
     gameStatistics |->
        [gameStatistics EXCEPT !.playerX = room.stats.xWins,
                               !.playerO = room.stats.oWins,
                               !.draws = room.stats.draws,
                               !.totalGames = room.stats.totalGames],
     clicksEnabled |-> room.isActive]

\* what renderFromRoomState(room) leaves in the globals it writes, the
\* client's mark being `mark`
renderFromRoomState(room, mark) ==
    [currentGameBoard |-> [i \in Cells |-> room.board[i]],
     isGameCurrentlyActive |-> room.isActive,
     currentPlayer |-> room.currentPlayer,
     isProcessingMove |-> FALSE,
     gameStatistics |->
        [gameStatistics EXCEPT !.playerX = room.stats.xWins,
                               !.playerO = room.stats.oWins,
                               !.draws = room.stats.draws,
                               !.totalGames = room.stats.totalGames],
     clicksEnabled |->
        room.isActive /\ mark # Null /\ room.currentPlayer = mark]

\* the "roomState" listener runs for the oldest event on the wire
OnRoomState ==
    /\ socket # Null
    /\ wire # <<>>
    /\ Head(wire).ev = "roomState"
    /\ LET msg == Head(wire)
           mark == IF msg.yourMark # Null THEN msg.yourMark ELSE myMark
           out == renderFromRoomState(msg.room, mark)
       IN  /\ currentLobbyId' =
                 IF msg.lobbyId # NoLobby THEN msg.lobbyId ELSE currentLobbyId
           /\ myMark' = mark
           /\ currentGameBoard' = out.currentGameBoard
           /\ isGameCurrentlyActive' = out.isGameCurrentlyActive
           /\ currentPlayer' = out.currentPlayer
           /\ isProcessingMove' = out.isProcessingMove
           /\ gameStatistics' = out.gameStatistics
           /\ clicksEnabled' = out.clicksEnabled
    /\ wire' = Tail(wire)
    /\ UNCHANGED <<gameMode, difficulty, playerXStartsFirst,
                   computerStartsFirst, onlineMode, timeouts, socket>>
    /\ UNCHANGED <<serverVars, netVars, winnerVars>>

\* the "playerJoined" and "errorMsg" listeners: they write the status line
OnNotice ==
    /\ socket # Null
    /\ wire # <<>>
    /\ Head(wire).ev \in {"playerJoined", "errorMsg"}
    /\ wire' = Tail(wire)
    /\ UNCHANGED <<serverVars, netVars, winnerVars, localVars, clientVars>>

(***************************************************************************)
(* joinLobby                                                               *)
(***************************************************************************)
\* the mark with one more participant than the code counts
assignMarkOffByOne(size, requestedMark) ==
    IF requestedMark \in Marks THEN requestedMark
    ELSE IF size >= 3 THEN "O" ELSE "X"

\* let assignedMark = "X"; if (size >= 2) "O"; a valid requestedMark wins
assignMark(size, requestedMark) ==
    IF requestedMark \in Marks THEN requestedMark
    ELSE IF size >= 2 THEN "O" ELSE "X"

\* a handler that turns the third socket away before it joins
onJoinLobbyRejectFull(s, arg, requestedMark) ==
    LET lobbyId == Trim(OrEmpty(arg)) IN
    IF lobbyId = <<>>
    THEN [rooms |-> rooms, adapter |-> adapter, sdata |-> sdata,
          emits |-> <<ErrorMsg({s}, "Lobby ID required.")>>]
    ELSE LET rs == getRoom(rooms, lobbyId)
             joined == adapter[lobbyId] \cup {s}
             room == [rs[lobbyId] EXCEPT !.players = SetAdd(@, s)]
             assignedMark == assignMark(Cardinality(joined), requestedMark)
         IN  IF Cardinality(joined) > 2
             THEN [rooms |-> rs, adapter |-> adapter, sdata |-> sdata,
                   emits |->
                     <<ErrorMsg({s},
                         "Room is full (2 players). Spectators not allowed.")>>]
             ELSE [rooms |-> [rs EXCEPT ![lobbyId] = room],
                   adapter |-> [adapter EXCEPT ![lobbyId] = joined],
                   sdata |-> [sdata EXCEPT
                           ![s] = [lobbyId |-> lobbyId, mark |-> assignedMark]],
                   emits |->
                     <<RoomStateMsg({s}, room, assignedMark, lobbyId),
                       PlayerJoinedMsg(joined \ {s}, s)>>]

\* what the joinLobby handler leaves behind when socket s sends it
onJoinLobby(s, arg, requestedMark) ==
    LET lobbyId == Trim(OrEmpty(arg)) IN
    IF lobbyId = <<>>
    THEN [rooms |-> rooms, adapter |-> adapter, sdata |-> sdata,
          emits |-> <<ErrorMsg({s}, "Lobby ID required.")>>]
    ELSE LET rs == getRoom(rooms, lobbyId)
             joined == adapter[lobbyId] \cup {s}
             room == [rs[lobbyId] EXCEPT !.players = SetAdd(@, s)]
             assignedMark == assignMark(Cardinality(joined), requestedMark)
         IN  [rooms |-> [rs EXCEPT ![lobbyId] = room],
              adapter |-> [adapter EXCEPT ![lobbyId] = joined],
              sdata |-> [sdata EXCEPT
                           ![s] = [lobbyId |-> lobbyId, mark |-> assignedMark]],
              emits |->
                <<RoomStateMsg({s}, room, assignedMark, lobbyId),
                  PlayerJoinedMsg(joined \ {s}, s)>>
                \o (IF Cardinality(joined) > 2
                    THEN <<ErrorMsg({s},
                            "Room is full (2 players). Spectators not allowed.")>>
                    ELSE <<>>)]

JoinLobby(s, arg, requestedMark) ==
    /\ connected[s]
    /\ LET out == onJoinLobby(s, arg, requestedMark) IN
       /\ rooms' = out.rooms
       /\ adapter' = out.adapter
       /\ sdata' = out.sdata
       /\ emits' = out.emits
    /\ UNCHANGED <<connected, timers>>
    /\ Delivered
    /\ UNCHANGED nonServerVars

\* the event loop runs the joinLobby handler for the oldest event that waits
HandleJoin ==
    /\ inbox # <<>>
    /\ Head(inbox).ev = "joinLobby"
    /\ connected[Head(inbox).s]
    /\ LET out == onJoinLobby(Head(inbox).s, Head(inbox).arg, Null) IN
       /\ rooms' = out.rooms
       /\ adapter' = out.adapter
       /\ sdata' = out.sdata
       /\ emits' = out.emits
    /\ inbox' = Tail(inbox)
    /\ Delivered
    /\ UNCHANGED <<connected, timers>>
    /\ UNCHANGED <<winnerVars, localVars, clientVars>>

(***************************************************************************)
(* makeMove                                                                *)
(***************************************************************************)
\* the legality checks without the occupied-cell test
MoveRejectedNoOccupied(room, mark, index) ==
    \/ ~room.isActive
    \/ BadIndex(index)
    \/ room.currentPlayer # mark

\* the legality checks without the isActive test
MoveRejectedNoActive(room, mark, index) ==
    \/ BadIndex(index)
    \/ room.board[index.v] # Null
    \/ room.currentPlayer # mark

\* the early returns of the handler once the room is known
MoveRejected(room, mark, index) ==
    \/ ~room.isActive
    \/ BadIndex(index)
    \/ room.board[index.v] # Null
    \/ room.currentPlayer # mark

\* the accepted move that leaves a drawn game open
applyMoveDrawStaysActive(room, mark, i) ==
    LET board == [room.board EXCEPT ![i] = mark]
        winner == checkWinner(board)
        isDraw == BoardFull(board) /\ winner = Null
    IN  IF winner # Null
        THEN [room EXCEPT
                !.board = board, !.isActive = FALSE,
                !.stats = [(IF winner = "X"
                            THEN [@ EXCEPT !.xWins = @ + 1]
                            ELSE [@ EXCEPT !.oWins = @ + 1])
                           EXCEPT !.totalGames = @ + 1]]
        ELSE IF isDraw
        THEN [room EXCEPT
                !.board = board,
                !.stats = [@ EXCEPT !.draws = @ + 1, !.totalGames = @ + 1]]
        ELSE [room EXCEPT
                !.board = board,
                !.currentPlayer = IF mark = "X" THEN "O" ELSE "X"]

\* the accepted move that counts a draw without counting the game
applyMoveDrawUncounted(room, mark, i) ==
    LET board == [room.board EXCEPT ![i] = mark]
        winner == checkWinner(board)
        isDraw == BoardFull(board) /\ winner = Null
    IN  IF winner # Null
        THEN [room EXCEPT
                !.board = board, !.isActive = FALSE,
                !.stats = [(IF winner = "X"
                            THEN [@ EXCEPT !.xWins = @ + 1]
                            ELSE [@ EXCEPT !.oWins = @ + 1])
                           EXCEPT !.totalGames = @ + 1]]
        ELSE IF isDraw
        THEN [room EXCEPT
                !.board = board, !.isActive = FALSE,
                !.stats = [@ EXCEPT !.draws = @ + 1]]
        ELSE [room EXCEPT
                !.board = board,
                !.currentPlayer = IF mark = "X" THEN "O" ELSE "X"]

\* the accepted move that credits every win to X
applyMoveCreditX(room, mark, i) ==
    LET board == [room.board EXCEPT ![i] = mark]
        winner == checkWinner(board)
        isDraw == BoardFull(board) /\ winner = Null
    IN  IF winner # Null
        THEN [room EXCEPT
                !.board = board, !.isActive = FALSE,
                !.stats = [@ EXCEPT !.xWins = @ + 1, !.totalGames = @ + 1]]
        ELSE IF isDraw
        THEN [room EXCEPT
                !.board = board, !.isActive = FALSE,
                !.stats = [@ EXCEPT !.draws = @ + 1, !.totalGames = @ + 1]]
        ELSE [room EXCEPT
                !.board = board,
                !.currentPlayer = IF mark = "X" THEN "O" ELSE "X"]

\* the accepted move that leaves the turn with the mover
applyMoveKeepTurn(room, mark, i) ==
    LET board == [room.board EXCEPT ![i] = mark]
        winner == checkWinner(board)
        isDraw == BoardFull(board) /\ winner = Null
    IN  IF winner # Null
        THEN [room EXCEPT
                !.board = board, !.isActive = FALSE,
                !.stats = [(IF winner = "X"
                            THEN [@ EXCEPT !.xWins = @ + 1]
                            ELSE [@ EXCEPT !.oWins = @ + 1])
                           EXCEPT !.totalGames = @ + 1]]
        ELSE IF isDraw
        THEN [room EXCEPT
                !.board = board, !.isActive = FALSE,
                !.stats = [@ EXCEPT !.draws = @ + 1, !.totalGames = @ + 1]]
        ELSE [room EXCEPT !.board = board]

\* the room after the accepted move: place the mark, evaluate, score or flip
applyMove(room, mark, i) ==
    LET board == [room.board EXCEPT ![i] = mark]
        winner == checkWinner(board)
        isDraw == BoardFull(board) /\ winner = Null
    IN  IF winner # Null
        THEN [room EXCEPT
                !.board = board, !.isActive = FALSE,
                !.stats = [(IF winner = "X"
                            THEN [@ EXCEPT !.xWins = @ + 1]
                            ELSE [@ EXCEPT !.oWins = @ + 1])
                           EXCEPT !.totalGames = @ + 1]]
        ELSE IF isDraw
        THEN [room EXCEPT
                !.board = board, !.isActive = FALSE,
                !.stats = [@ EXCEPT !.draws = @ + 1, !.totalGames = @ + 1]]
        ELSE [room EXCEPT
                !.board = board,
                !.currentPlayer = IF mark = "X" THEN "O" ELSE "X"]

\* what the makeMove handler leaves behind when it runs for socket s on the
\* room store `store`
onMakeMoveIn(store, s, index) ==
    LET lobbyId == sdata[s].lobbyId IN
    IF lobbyId = NoLobby
    THEN [rooms |-> store, emits |-> <<>>]
    ELSE LET rs == getRoom(store, lobbyId)
             room == rs[lobbyId]
             mark == sdata[s].mark
         IN  IF MoveRejected(room, mark, index)
             THEN [rooms |-> rs, emits |-> <<>>]
             ELSE LET after == applyMove(room, mark, index.v) IN
                  [rooms |-> [rs EXCEPT ![lobbyId] = after],
                   emits |->
                     <<RoomStateMsg(adapter[lobbyId], after, Null, lobbyId)>>]

\* what the makeMove handler leaves behind when socket s sends it
onMakeMove(s, index) == onMakeMoveIn(rooms, s, index)

\* the games counted in all rooms
GamesCounted(rs) ==
    {rs[l].stats.totalGames : l \in DOMAIN rs}

MakeMove(s, index) ==
    /\ connected[s]
    /\ LET out == onMakeMove(s, index) IN
       \* bound of the model: no room finishes more than MaxGames games
       /\ \A n \in GamesCounted(out.rooms) : n <= MaxGames
       /\ rooms' = out.rooms
       /\ emits' = out.emits
    /\ UNCHANGED <<sdata, adapter, connected, timers>>
    /\ Delivered
    /\ UNCHANGED nonServerVars

\* a makeMove event of socket s arrives while earlier ones wait to be handled
ReceiveMove(s, index) ==
    /\ connected[s]
    /\ Len(inbox) < MaxInbox
    /\ inbox' = Append(inbox, MakeMoveEvent(s, index))
    /\ UNCHANGED <<serverVars, wire, winnerVars, localVars, clientVars>>

\* the event loop runs the makeMove handler, to completion, for the oldest
\* event that waits
HandleMove ==
    /\ inbox # <<>>
    /\ Head(inbox).ev = "makeMove"
    /\ LET out == onMakeMove(Head(inbox).s, Head(inbox).index) IN
       /\ \A n \in GamesCounted(out.rooms) : n <= MaxGames
       /\ rooms' = out.rooms
       /\ emits' = out.emits
    /\ inbox' = Tail(inbox)
    /\ Delivered
    /\ UNCHANGED <<sdata, adapter, connected, timers>>
    /\ UNCHANGED <<winnerVars, localVars, clientVars>>

(***************************************************************************)
(* newGame and resetStats                                                  *)
(***************************************************************************)
\* a reset that also clears the counters
resetBoardAndStats(room) ==
    [room EXCEPT !.board = EmptyBoard, !.currentPlayer = "X",
                 !.isActive = TRUE, !.stats = ZeroStats]

\* a reset that leaves the turn where the last game left it
resetBoardKeepTurn(room) ==
    [room EXCEPT !.board = EmptyBoard, !.isActive = TRUE]

\* room.board = Array(9).fill(null); currentPlayer = "X"; isActive = true
resetBoard(room) ==
    [room EXCEPT !.board = EmptyBoard, !.currentPlayer = "X",
                 !.isActive = TRUE]

\* what the newGame handler leaves behind when socket s sends it
onNewGame(s) ==
    LET lobbyId == sdata[s].lobbyId IN
    IF lobbyId = NoLobby
    THEN [rooms |-> rooms, emits |-> <<>>]
    ELSE LET rs == getRoom(rooms, lobbyId)
             after == resetBoard(rs[lobbyId])
         IN  [rooms |-> [rs EXCEPT ![lobbyId] = after],
              emits |->
                <<RoomStateMsg(adapter[lobbyId], after, Null, lobbyId)>>]

NewGame(s) ==
    /\ connected[s]
    /\ LET out == onNewGame(s) IN
       /\ rooms' = out.rooms
       /\ emits' = out.emits
    /\ UNCHANGED <<sdata, adapter, connected, timers>>
    /\ Delivered
    /\ UNCHANGED nonServerVars

\* a reset that forgets the games total
zeroStatsKeepTotal(room) ==
    [room EXCEPT !.stats = [ZeroStats EXCEPT !.totalGames = room.stats.totalGames]]

\* room.stats = { xWins: 0, oWins: 0, draws: 0, totalGames: 0 }
zeroStats(room) == [room EXCEPT !.stats = ZeroStats]

\* what the resetStats handler leaves behind when socket s sends it
onResetStats(s) ==
    LET lobbyId == sdata[s].lobbyId IN
    IF lobbyId = NoLobby
    THEN [rooms |-> rooms, emits |-> <<>>]
    ELSE LET rs == getRoom(rooms, lobbyId)
             after == zeroStats(rs[lobbyId])
         IN  [rooms |-> [rs EXCEPT ![lobbyId] = after],
              emits |->
                <<RoomStateMsg(adapter[lobbyId], after, Null, lobbyId)>>]

ResetStats(s) ==
    /\ connected[s]
    /\ LET out == onResetStats(s) IN
       /\ rooms' = out.rooms
       /\ emits' = out.emits
    /\ UNCHANGED <<sdata, adapter, connected, timers>>
    /\ Delivered
    /\ UNCHANGED nonServerVars

(***************************************************************************)
(* disconnect and the disposal timer                                       *)
(***************************************************************************)
\* socket.io removes a closing socket from every room it joined before the
\* "disconnect" event runs, so the handler's size test does not count it.
\* The socket object is dropped afterwards: its data is cleared.
\* a departure that also clears the board of the room
leaveAndClear(room, s) ==
    [room EXCEPT !.players = SetDelete(@, s), !.board = EmptyBoard]

\* rooms[lobbyId].players.delete(socket.id)
leave(room, s) == [room EXCEPT !.players = SetDelete(@, s)]

\* what the disconnect of socket s leaves behind
onDisconnect(s) ==
    LET lobbyId == sdata[s].lobbyId
        left == [l \in LobbyIds |-> adapter[l] \ {s}]
    IN  IF lobbyId = NoLobby \/ lobbyId \notin DOMAIN rooms
        THEN [rooms |-> rooms, adapter |-> left, timers |-> timers]
        ELSE [rooms |-> [rooms EXCEPT ![lobbyId] = leave(@, s)],
              adapter |-> left,
              timers |-> IF left[lobbyId] = {}
                         THEN [timers EXCEPT ![lobbyId] = @ + 1]
                         ELSE timers]

Disconnect(s) ==
    /\ connected[s]
    /\ connected' = [connected EXCEPT ![s] = FALSE]
    /\ sdata' = [sdata EXCEPT ![s] = NoData]
    /\ emits' = <<>>
    /\ LET out == onDisconnect(s) IN
       /\ rooms' = out.rooms
       /\ adapter' = out.adapter
       /\ timers' = out.timers
    /\ Delivered
    /\ UNCHANGED nonServerVars

\* a callback that deletes the session without looking at the group
DisposeTimerAlways(lobbyId) ==
    /\ timers[lobbyId] > 0
    /\ timers' = [timers EXCEPT ![lobbyId] = @ - 1]
    /\ rooms' = [l \in DOMAIN rooms \ {lobbyId} |-> rooms[l]]
    /\ UNCHANGED <<sdata, adapter, connected, emits, wire>>
    /\ UNCHANGED nonServerVars

\* the setTimeout callback of the disconnect handler
DisposeTimer(lobbyId) ==
    /\ timers[lobbyId] > 0
    /\ timers' = [timers EXCEPT ![lobbyId] = @ - 1]
    /\ LET stillEmpty == Cardinality(adapter[lobbyId]) = 0 IN
       rooms' = IF stillEmpty
                THEN [l \in DOMAIN rooms \ {lobbyId} |-> rooms[l]]
                ELSE rooms
    /\ UNCHANGED <<sdata, adapter, connected, emits, wire>>
    /\ UNCHANGED nonServerVars

(***************************************************************************)
(* Specifications.                                                         *)
(***************************************************************************)
\* what a client may send as lobbyId
LobbyArgs ==
    {Undefined, Str(<<>>), Str(<<" ">>), Str(<<"A">>), Str(<<" ", "A", " ">>)}

\* what a client may send as requestedMark
RequestedMarks == {Null, "X", "Z"}

\* what a client may send as index
IndexArgs == {IntIdx(n) : n \in -1..9} \cup {NonInt}

\* the indexes sent while the lobby protocol is explored
LobbyIndexArgs == {IntIdx(0), IntIdx(4), IntIdx(9), NonInt}

Next ==
    \/ \E s \in Sockets, arg \in LobbyArgs, m \in RequestedMarks :
          JoinLobby(s, arg, m)
    \/ \E s \in Sockets, index \in LobbyIndexArgs : MakeMove(s, index)
    \/ \E s \in Sockets : NewGame(s)
    \/ \E s \in Sockets : ResetStats(s)
    \/ \E s \in Sockets : Disconnect(s)
    \/ \E l \in LobbyIds : DisposeTimer(l)

Spec == Init /\ [][Next]_vars

\* the same server when no client supplies requestedMark (script.js never does)
NextPlainJoin ==
    \/ \E s \in Sockets, arg \in LobbyArgs : JoinLobby(s, arg, Null)
    \/ \E s \in Sockets, index \in LobbyIndexArgs : MakeMove(s, index)
    \/ \E s \in Sockets : NewGame(s)
    \/ \E s \in Sockets : ResetStats(s)
    \/ \E s \in Sockets : Disconnect(s)
    \/ \E l \in LobbyIds : DisposeTimer(l)

SpecPlainJoin == Init /\ [][NextPlainJoin]_vars

\* Two sockets have joined lobby A in turn and a third is connected
InitGame ==
    LET A == <<"A">>
        room == [board |-> EmptyBoard, currentPlayer |-> "X", isActive |-> TRUE,
                 stats |-> ZeroStats, players |-> <<"s1", "s2">>]
    IN  /\ rooms = [l \in {A} |-> room]
        /\ sdata = [s \in Sockets |->
                      IF s = "s1" THEN [lobbyId |-> A, mark |-> "X"]
                      ELSE IF s = "s2" THEN [lobbyId |-> A, mark |-> "O"]
                      ELSE NoData]
        /\ adapter = [l \in LobbyIds |-> IF l = A THEN {"s1", "s2"} ELSE {}]
        /\ connected = [s \in Sockets |-> TRUE]
        /\ timers = [l \in LobbyIds |-> 0]
        /\ emits = <<RoomStateMsg({"s2"}, room, "O", A),
                     PlayerJoinedMsg({"s1"}, "s2")>>
        /\ inbox = <<>>
        /\ wire = <<>>
        /\ InitWinnerIdle
        /\ InitLocal

NextGame ==
    \/ \E s \in Sockets, index \in IndexArgs : MakeMove(s, index)
    \/ \E s \in Sockets : NewGame(s)
    \/ \E s \in Sockets : ResetStats(s)

SpecGame == InitGame /\ [][NextGame]_vars

\* the cells asked for while races between makeMove events are explored
RaceIndexArgs == {IntIdx(0), IntIdx(4), IntIdx(8)}

\* two players and a third socket send makeMove events that queue up
NextRace ==
    \/ \E s \in Sockets, index \in RaceIndexArgs : ReceiveMove(s, index)
    \/ HandleMove
    \/ \E s \in Sockets : JoinLobby(s, Str(<<"A">>), Null)
    \/ \E s \in Sockets : NewGame(s)

SpecRace == InitGame /\ [][NextRace]_vars

\* the lobby ids clients join while several sessions are explored
TwoLobbyArgs == {Str(<<"A">>), Str(<<"B">>)}

\* the board after X:0, O:4, X:1, O:5, X:2
WonByX ==
    [i \in Cells |-> IF i \in {0, 1, 2} THEN "X"
                     ELSE IF i \in {4, 5} THEN "O" ELSE Null]

\* s2 and s3 have joined lobby B in turn and played a game that X won with
\* its fifth move; s1 is connected and has joined nothing
InitLobbies ==
    LET B == <<"B">>
        room == [board |-> WonByX, currentPlayer |-> "X", isActive |-> FALSE,
                 stats |-> [xWins |-> 1, oWins |-> 0, draws |-> 0,
                            totalGames |-> 1],
                 players |-> <<"s2", "s3">>]
    IN  /\ rooms = [l \in {B} |-> room]
        /\ sdata = [s \in Sockets |->
                      IF s = "s2" THEN [lobbyId |-> B, mark |-> "X"]
                      ELSE IF s = "s3" THEN [lobbyId |-> B, mark |-> "O"]
                      ELSE NoData]
        /\ adapter = [l \in LobbyIds |-> IF l = B THEN {"s2", "s3"} ELSE {}]
        /\ connected = [s \in Sockets |-> TRUE]
        /\ timers = [l \in LobbyIds |-> 0]
        /\ emits = <<RoomStateMsg({"s2", "s3"}, room, Null, B)>>
        /\ inbox = <<>>
        /\ wire = <<>>
        /\ InitWinnerIdle
        /\ InitLocal

\* the cells asked for while several sessions are explored
LobbiesIndexArgs == {IntIdx(0)}

\* sockets spread over two lobbies
NextLobbies ==
    \/ \E s \in Sockets, arg \in TwoLobbyArgs : JoinLobby(s, arg, Null)
    \/ \E s \in Sockets, index \in LobbiesIndexArgs : MakeMove(s, index)
    \/ \E s \in Sockets : NewGame(s)
    \/ \E s \in Sockets : ResetStats(s)
    \/ \E s \in Sockets : Disconnect(s)
    \/ \E l \in LobbyIds : DisposeTimer(l)

SpecLobbies == InitLobbies /\ [][NextLobbies]_vars

\* sockets come and go over two lobbies; a timeout that was set fires
NextDisposal ==
    \/ \E s \in Sockets, arg \in TwoLobbyArgs : JoinLobby(s, arg, Null)
    \/ \E s \in Sockets : Disconnect(s)
    \/ \E l \in LobbyIds : DisposeTimer(l)

SpecDisposal ==
    /\ Init
    /\ [][NextDisposal]_vars
    /\ \A l \in LobbyIds : WF_vars(DisposeTimer(l))

\* InitLobbies is a state of the server when lobby B is joined and played in
SpecLobbyGame ==
    Init /\ [][\/ \E s \in Sockets : JoinLobby(s, Str(<<"B">>), Null)
              \/ \E s \in Sockets, index \in IndexArgs : MakeMove(s, index)]_vars
InitLobbiesUnreached == ~InitLobbies

\* InitGame is a state of Spec
InitGameUnreached == ~InitGame

\* the cells clicked while local play is explored
LocalCells == 0..4

\* local two-player mode: the page has loaded and "Switch to PvP" was clicked
InitLocalPvP ==
    /\ ServerIdle
    /\ InitWinnerIdle
    /\ gameMode = "pvp"
    /\ difficulty = "medium"
    /\ currentPlayer = "X"
    /\ playerXStartsFirst = TRUE
    /\ computerStartsFirst = FALSE
    /\ onlineMode = FALSE
    /\ ClientOffline
    /\ currentGameBoard = EmptyBoard
    /\ isGameCurrentlyActive = TRUE
    /\ isProcessingMove = FALSE
    /\ gameStatistics = ZeroStatistics
    /\ clicksEnabled = TRUE
    /\ timeouts = <<>>

NextLocalPvP ==
    \/ \E index \in LocalCells : HandlePlayerMove(index)
    \/ EvalPlayerMove
    \/ NewGameClick
    \/ TogglePvPStarter
    \/ ResetStatsClick

SpecLocalPvP == InitLocalPvP /\ [][NextLocalPvP]_vars

\* local two-player games on the whole board, with New Game
NextLocalFull ==
    \/ \E index \in Cells : HandlePlayerMove(index)
    \/ EvalPlayerMove
    \/ NewGameClick

SpecLocalFull == InitLocalPvP /\ [][NextLocalFull]_vars

\* the page goes online: games against the computer are started with the
\* starter toggle, then lobby A is joined and cells are clicked there; a
\* second player on another connection joins and plays the centre
OnlineLobby == <<"A">>
OnlineCells == {0, 4}
OpponentCells == {4}

NextOnline ==
    \/ ToggleComputerStarter
    \/ \E index \in OnlineCells : onlineMode /\ HandlePlayerMove(index)
    \/ HandleComputerMove
    \/ EvalComputerMove
    \/ JoinLobbyClick(OnlineLobby)
    \/ HandleJoin
    \/ HandleMove
    \/ JoinLobby("s2", Str(OnlineLobby), Null)
    \/ \E index \in OpponentCells : ReceiveMove("s2", IntIdx(index))
    \/ OnRoomState
    \/ OnNotice

SpecOnline == Init /\ [][NextOnline]_vars

\* the page joins lobby A and then lobby B over the same connection and
\* clicks cells; a second player joins lobby A and starts new games there;
\* the server handles every event that waits (strongly fair: a handler is
\* held back only while the bounded wire is full) and every message in
\* flight reaches the page
SwitchLobbies == {<<"A">>, <<"B">>}

NextSwitch ==
    \/ \E lobbyId \in SwitchLobbies : JoinLobbyClick(lobbyId)
    \/ \E index \in OnlineCells : onlineMode /\ HandlePlayerMove(index)
    \/ HandleJoin
    \/ HandleMove
    \/ JoinLobby("s2", Str(OnlineLobby), Null)
    \/ NewGame("s2")
    \/ OnRoomState
    \/ OnNotice

SpecSwitch ==
    /\ Init
    /\ [][NextSwitch]_vars
    /\ SF_vars(HandleJoin)
    /\ SF_vars(HandleMove)
    /\ WF_vars(OnRoomState)
    /\ WF_vars(OnNotice)

\* one lobby, no timers of a local game: the page and a second player join
\* lobby A and play; events are handled and messages delivered
NextOnlineFair ==
    \/ \E index \in OnlineCells : onlineMode /\ HandlePlayerMove(index)
    \/ JoinLobbyClick(OnlineLobby)
    \/ HandleJoin
    \/ HandleMove
    \/ JoinLobby("s2", Str(OnlineLobby), Null)
    \/ \E index \in OnlineCells : ReceiveMove("s2", IntIdx(index))
    \/ NewGame("s2")
    \/ OnRoomState
    \/ OnNotice

SpecOnlineFair ==
    /\ Init
    /\ [][NextOnlineFair]_vars
    /\ SF_vars(HandleJoin)
    /\ SF_vars(HandleMove)
    /\ WF_vars(OnRoomState)
    /\ WF_vars(OnNotice)

\* local play in both modes under every starter setting, with New Game
ResetCells == {0, 1, 2, 3, 4}

NextReset ==
    \/ ToggleGameMode
    \/ TogglePvPStarter
    \/ ToggleComputerStarter
    \/ \E index \in ResetCells : HandlePlayerMove(index)
    \/ EvalPlayerMove
    \/ HandleComputerMove
    \/ EvalComputerMove
    \/ NewGameClick

SpecReset == Init /\ [][NextReset]_vars

\* InitLocalPvP is the state one mode toggle after loading
SpecToggle == Init /\ [][ToggleGameMode]_vars
InitLocalPvPUnreached == ~InitLocalPvP

\* the computer is about to move, at medium difficulty, on any board of
\* {empty, X, O}^9
InitMedium ==
    /\ ServerIdle
    /\ InitWinnerIdle
    /\ gameMode = "pvc"
    /\ difficulty = "medium"
    /\ currentPlayer = "X"
    /\ playerXStartsFirst = TRUE
    /\ computerStartsFirst = FALSE
    /\ onlineMode = FALSE
    /\ ClientOffline
    /\ currentGameBoard \in [Cells -> Cell]
    /\ isGameCurrentlyActive = TRUE
    /\ isProcessingMove = TRUE
    /\ gameStatistics = ZeroStatistics
    /\ clicksEnabled = FALSE
    /\ timeouts = <<ComputerCallback(500)>>

NextMedium == HandleComputerMove \/ EvalComputerMove

SpecMedium == InitMedium /\ [][NextMedium]_vars

\* the computer is about to move, at hard difficulty, on any board without a
\* line that has 1 to MaxEmpty empty cells and on which it is O's turn, X or
\* O having started
XCount(board) == Cardinality({i \in Cells : board[i] = "X"})
OCount(board) == Cardinality({i \in Cells : board[i] = "O"})

SearchBoards ==
    {b \in [Cells -> Cell] :
        /\ clientCheckWinner(b) = Null
        /\ ~isBoardFull(b)
        /\ Len(getEmptyIndices(b)) <= MaxEmpty
        /\ XCount(b) - OCount(b) \in {0, 1}}

InitSearch ==
    /\ ServerIdle
    /\ InitWinnerIdle
    /\ ClientOffline
    /\ gameMode = "pvc"
    /\ difficulty = "hard"
    /\ currentPlayer = "X"
    /\ playerXStartsFirst = TRUE
    /\ computerStartsFirst \in BOOLEAN
    /\ onlineMode = FALSE
    /\ currentGameBoard \in SearchBoards
    /\ computerStartsFirst <=> XCount(currentGameBoard) = OCount(currentGameBoard)
    /\ isGameCurrentlyActive = TRUE
    /\ isProcessingMove = (~computerStartsFirst \/ currentGameBoard # EmptyBoard)
    /\ gameStatistics = ZeroStatistics
    /\ clicksEnabled = FALSE
    /\ timeouts = <<ComputerCallback(500)>>

NextSearch == HandleComputerMove \/ EvalComputerMove

SpecSearch == InitSearch /\ [][NextSearch]_vars

\* the computer is about to move, at any difficulty, the game being active
\* or not, on any board without a line that has at most MaxEmpty empty
\* cells and as many O as X or one less
Difficulties == {"easy", "medium", "hard"}

TierBoards ==
    {b \in [Cells -> Cell] :
        /\ clientCheckWinner(b) = Null
        /\ Len(getEmptyIndices(b)) <= MaxEmpty
        /\ XCount(b) - OCount(b) \in {0, 1}}

InitTiers ==
    /\ ServerIdle
    /\ InitWinnerIdle
    /\ ClientOffline
    /\ gameMode = "pvc"
    /\ difficulty \in Difficulties
    /\ currentPlayer = "X"
    /\ playerXStartsFirst = TRUE
    /\ computerStartsFirst \in BOOLEAN
    /\ onlineMode = FALSE
    /\ currentGameBoard \in TierBoards
    /\ computerStartsFirst <=> XCount(currentGameBoard) = OCount(currentGameBoard)
    /\ isGameCurrentlyActive \in BOOLEAN
    /\ isProcessingMove = TRUE
    /\ gameStatistics = ZeroStatistics
    /\ clicksEnabled = FALSE
    /\ timeouts = <<ComputerCallback(500)>>

SpecTiers == InitTiers /\ [][NextSearch]_vars

\* local play against the computer at hard difficulty, from the empty board,
\* with nothing pending from an earlier game: the player starts, or the
\* computer starts and its first move is due
InitHard ==
    /\ ServerIdle
    /\ InitWinnerIdle
    /\ gameMode = "pvc"
    /\ difficulty = "hard"
    /\ currentPlayer = "X"
    /\ playerXStartsFirst = TRUE
    /\ computerStartsFirst \in BOOLEAN
    /\ onlineMode = FALSE
    /\ ClientOffline
    /\ currentGameBoard = EmptyBoard
    /\ isGameCurrentlyActive = TRUE
    /\ isProcessingMove = FALSE
    /\ gameStatistics = ZeroStatistics
    /\ clicksEnabled = ~computerStartsFirst
    /\ timeouts = IF computerStartsFirst THEN <<ComputerCallback(1000)>>
                  ELSE <<>>

\* one game: cell clicks and the callbacks they lead to
NextHard ==
    \/ \E index \in Cells : HandlePlayerMove(index)
    \/ EvalPlayerMove
    \/ HandleComputerMove
    \/ EvalComputerMove

SpecHard == InitHard /\ [][NextHard]_vars

\* a game at hard difficulty with the player first, started by the starter
\* toggle just after two computer moves of the game before: the evaluations
\* of those two moves are still pending
InitHardStale ==
    /\ ServerIdle
    /\ InitWinnerIdle
    /\ gameMode = "pvc"
    /\ difficulty = "hard"
    /\ currentPlayer = "X"
    /\ playerXStartsFirst = TRUE
    /\ computerStartsFirst = FALSE
    /\ onlineMode = FALSE
    /\ ClientOffline
    /\ currentGameBoard = EmptyBoard
    /\ isGameCurrentlyActive = TRUE
    /\ isProcessingMove = FALSE
    /\ gameStatistics = ZeroStatistics
    /\ clicksEnabled = TRUE
    /\ timeouts = <<EvalComputerCallback, EvalComputerCallback>>

\* the cells clicked in that game
StaleCells == {0, 1, 2}

NextHardStale ==
    \/ \E index \in StaleCells : HandlePlayerMove(index)
    \/ EvalPlayerMove
    \/ HandleComputerMove
    \/ EvalComputerMove

SpecHardStale == InitHardStale /\ [][NextHardStale]_vars

\* InitHardStale is a state of the page: starter toggle, New Game, the two
\* computer moves, difficulty toggle, starter toggle
SpecSettings ==
    Init /\ [][\/ ToggleComputerStarter
              \/ NewGameClick
              \/ ToggleDifficulty
              \/ (difficulty = "medium" /\ HandleComputerMove)]_vars
InitHardStaleUnreached == ~InitHardStale

NextWinner == EvalServerWinner \/ EvalClientWinner

InitWinnerBoards == InitWinner /\ InitLocal /\ ServerIdle

SpecWinner == InitWinnerBoards /\ [][NextWinner]_vars

(***************************************************************************)
(* Properties.                                                             *)
(***************************************************************************)
Rows == {{3 * r, 3 * r + 1, 3 * r + 2} : r \in 0..2}
Columns == {{c, c + 3, c + 6} : c \in 0..2}
Diagonals == {{0, 4, 8}, {2, 4, 6}}
WinLines == Rows \cup Columns \cup Diagonals

\* some win-line of the board is fully mark m
LineOf(board, m) == \E L \in WinLines : \A i \in L : board[i] = m

\* what the room engine decides about: the game state of a room
Game(room) ==
    [board |-> room.board, currentPlayer |-> room.currentPlayer,
     isActive |-> room.isActive, stats |-> room.stats]

Opposite(m) == IF m = "X" THEN "O" ELSE "X"

WinnerContract(board, r) ==
    /\ r \in Marks \cup {Null}
    /\ r \in Marks => LineOf(board, r)
    /\ r = Null <=> ~\E m \in Marks : LineOf(board, m)

C3Drops(s, index) ==
    LET l == sdata[s].lobbyId IN
    \/ l = NoLobby
    \/ /\ l \in DOMAIN rooms
       /\ \/ ~rooms[l].isActive
          \/ ~index.int
          \/ index.v \notin 0..8
          \/ rooms[l].board[index.v] # Null
          \/ sdata[s].mark # rooms[l].currentPlayer

Silent(msgs) ==
    \A k \in 1..Len(msgs) : msgs[k].ev \notin {"roomState", "errorMsg"}

\* C3: a makeMove from a socket that joined no lobby, for an inactive room,
\* with an index that is not an integer of 0..8, for an occupied cell or out
\* of turn changes no room's board, currentPlayer, isActive or stats and
\* emits neither roomState nor errorMsg.
C3_DroppedMoveIsNoOp ==
    \A s \in Sockets, index \in IndexArgs :
        C3Drops(s, index) =>
            LET out == onMakeMove(s, index) IN
            /\ DOMAIN out.rooms = DOMAIN rooms
            /\ \A l \in DOMAIN rooms : Game(out.rooms[l]) = Game(rooms[l])
            /\ Silent(out.emits)

\* a makeMove was sent to an ended game and dropped
C3_Witness ==
    /\ emits = <<>>
    /\ \E l \in DOMAIN rooms :
          ~rooms[l].isActive /\ \E i \in Cells : rooms[l].board[i] = Null

\* the room's game state after socket s's accepted move on cell i, as the
\* rules state it
Placed(room, m, i) == [room.board EXCEPT ![i] = m]

\* exactly one roomState goes out, to the sockets of lobby l, and it carries
\* the room as it is in rs
BroadcastsRoom(msgs, rs, l) ==
    /\ Len(msgs) = 1
    /\ msgs[1].ev = "roomState"
    /\ msgs[1].to = adapter[l]
    /\ msgs[1].lobbyId = l
    /\ Game(msgs[1].room) = Game(rs[l])

\* C2 (server part): an accepted makeMove that neither wins nor fills the
\* board hands the turn to the opposite mark and keeps the room active; one
\* that ends the game leaves currentPlayer alone and makes the room inactive.
C2_ServerTurnAlternation ==
    \A s \in Sockets, index \in IndexArgs :
        ~C3Drops(s, index) =>
            LET l == sdata[s].lobbyId
                m == sdata[s].mark
                b == Placed(rooms[l], m, index.v)
                after == onMakeMove(s, index).rooms[l]
            IN  IF LineOf(b, m) \/ BoardFull(b)
                THEN after.currentPlayer = rooms[l].currentPlayer /\ ~after.isActive
                ELSE after.currentPlayer = Opposite(m) /\ after.isActive

\* C2 (local two-player part): when the deferred evaluation of a move by
\* mark M finds neither a winner nor a full board, currentPlayer afterwards
\* is the opposite of M.
C2_LocalTurnAlternation ==
    [][(/\ EvalPlayerMove
        /\ ~determineWinner(currentGameBoard, Head(timeouts).playerMark)
        /\ ~isGameOver(currentGameBoard))
       => currentPlayer' = Opposite(Head(timeouts).playerMark)]_vars

ScenarioBoard ==
    [i \in Cells |-> IF i \in {0, 1, 2} THEN "X"
                     ELSE IF i \in {4, 5} THEN "O" ELSE Null]

\* C4: in a room that is not active every makeMove, from any socket and for
\* any index, leaves the room's game state as it is, so that the board of an
\* ended game changes only by newGame; and the board reached by X:0, O:4,
\* X:1, O:5, X:2 belongs to an inactive room that X has won.
C4_TerminalBoardFrozen ==
    \A l \in DOMAIN rooms :
        /\ ~rooms[l].isActive =>
              \A s \in Sockets, index \in IndexArgs :
                  LET out == onMakeMove(s, index) IN
                  /\ l \in DOMAIN out.rooms
                  /\ Game(out.rooms[l]) = Game(rooms[l])
        /\ rooms[l].board = ScenarioBoard =>
              /\ ~rooms[l].isActive
              /\ LineOf(rooms[l].board, "X")
              /\ ~LineOf(rooms[l].board, "O")
              /\ rooms[l].currentPlayer = "X"

\* the scenario's final board, after a further makeMove was dropped
C4_Witness ==
    /\ emits = <<>>
    /\ \E l \in DOMAIN rooms :
          rooms[l].board = ScenarioBoard /\ ~rooms[l].isActive

\* C5: an accepted move that completes a line of the mover's mark M adds 1
\* to M's win counter and to totalGames and nothing else; one that fills the
\* board without a line adds 1 to draws and to totalGames and nothing else;
\* any other accepted move leaves the four counters as they are.
C5_StatsAccounting ==
    \A s \in Sockets, index \in IndexArgs :
        ~C3Drops(s, index) =>
            LET l == sdata[s].lobbyId
                m == sdata[s].mark
                b == Placed(rooms[l], m, index.v)
                old == rooms[l].stats
                new == onMakeMove(s, index).rooms[l].stats
            IN  IF LineOf(b, m)
                THEN new =
                       [(IF m = "X" THEN [old EXCEPT !.xWins = @ + 1]
                         ELSE [old EXCEPT !.oWins = @ + 1])
                        EXCEPT !.totalGames = @ + 1]
                ELSE IF BoardFull(b)
                THEN new = [old EXCEPT !.draws = @ + 1, !.totalGames = @ + 1]
                ELSE new = old

\* a game won by O has been counted and broadcast
C5_Witness ==
    \E l \in DOMAIN rooms :
        /\ rooms[l].stats = [ZeroStats EXCEPT !.oWins = 1, !.totalGames = 1]
        /\ LineOf(rooms[l].board, "O")
        /\ BroadcastsRoom(emits, rooms, l)

\* C6: newGame from any socket that joined a lobby, in any room state, sets
\* the board to nine empty cells, currentPlayer to X and isActive to true,
\* keeps the four counters and broadcasts the resulting roomState.
C6_NewGameResets ==
    \A s \in Sockets :
        sdata[s].lobbyId # NoLobby =>
            LET l == sdata[s].lobbyId
                out == onNewGame(s)
            IN  /\ l \in DOMAIN rooms
                /\ out.rooms[l].board = [i \in Cells |-> Null]
                /\ out.rooms[l].currentPlayer = "X"
                /\ out.rooms[l].isActive
                /\ out.rooms[l].stats = rooms[l].stats
                /\ BroadcastsRoom(out.emits, out.rooms, l)

\* a new game was started after a counted game
C6_Witness ==
    \E l \in DOMAIN rooms :
        /\ rooms[l].board = EmptyBoard
        /\ rooms[l].isActive
        /\ rooms[l].stats.totalGames = 1
        /\ BroadcastsRoom(emits, rooms, l)

\* C7: resetStats from any socket that joined a lobby sets the four counters
\* to 0, keeps board, currentPlayer and isActive and broadcasts the
\* resulting roomState.
C7_ResetStatsZeroes ==
    \A s \in Sockets :
        sdata[s].lobbyId # NoLobby =>
            LET l == sdata[s].lobbyId
                out == onResetStats(s)
            IN  /\ l \in DOMAIN rooms
                /\ out.rooms[l].stats =
                     [xWins |-> 0, oWins |-> 0, draws |-> 0, totalGames |-> 0]
                /\ out.rooms[l].board = rooms[l].board
                /\ out.rooms[l].currentPlayer = rooms[l].currentPlayer
                /\ out.rooms[l].isActive = rooms[l].isActive
                /\ BroadcastsRoom(out.emits, out.rooms, l)

\* the counters of an ended game were reset
C7_Witness ==
    \E l \in DOMAIN rooms :
        /\ ~rooms[l].isActive
        /\ rooms[l].stats = ZeroStats
        /\ BroadcastsRoom(emits, rooms, l)

\* lobby l holds exactly f, who joined it first and holds X
FirstAlone(l, f) ==
    /\ l \in DOMAIN rooms
    /\ rooms[l].players = <<f>>
    /\ adapter[l] = {f}
    /\ sdata[f] = [lobbyId |-> l, mark |-> "X"]

\* lobby l holds exactly f and g, who joined in this order and hold X and O
FirstPair(l, f, g) ==
    /\ l \in DOMAIN rooms
    /\ rooms[l].players = <<f, g>>
    /\ adapter[l] = {f, g}
    /\ sdata[f] = [lobbyId |-> l, mark |-> "X"]
    /\ sdata[g] = [lobbyId |-> l, mark |-> "O"]

C9_ThirdJoinerNoMark ==
    /\ \A s \in Sockets, arg \in LobbyArgs :
          LET l == Trim(OrEmpty(arg)) IN
          (l # <<>> /\ s \notin adapter[l] /\ Cardinality(adapter[l]) >= 2) =>
              onJoinLobby(s, arg, Null).sdata[s].mark \notin Marks
    /\ \A l \in DOMAIN rooms :
          \A k \in 3..Len(rooms[l].players) :
              LET s == rooms[l].players[k] IN
              (connected[s] /\ sdata[s].lobbyId = l) =>
                  \A index \in IndexArgs :
                      Game(onMakeMove(s, index).rooms[l]) = Game(rooms[l])

\* C10: a joinLobby for the lobby the sender is already in leaves the
\* sender's mark and the room's board, currentPlayer, isActive and stats
\* as they are.
C10_JoinIdempotent ==
    \A s \in Sockets, arg \in LobbyArgs :
        LET l == Trim(OrEmpty(arg))
            out == onJoinLobby(s, arg, Null)
        IN  (l # <<>> /\ sdata[s].lobbyId = l /\ s \in adapter[l]) =>
            /\ out.sdata[s].mark = sdata[s].mark
            /\ Game(out.rooms[l]) = Game(rooms[l])

\* the lobbyId argument is missing, empty or only whitespace
IsBlank(arg) ==
    ~arg.defined \/ \A k \in 1..Len(arg.text) : arg.text[k] \in Whitespace

\* C11: a joinLobby whose lobbyId is missing, empty or only whitespace
\* creates no session, adds the sender to no broadcast group, leaves every
\* socket's stored lobby and mark as they are, and emits exactly one
\* errorMsg, to the sender.
C11_BlankLobbyIdRejected ==
    \A s \in Sockets, arg \in LobbyArgs, m \in RequestedMarks :
        IsBlank(arg) =>
            LET out == onJoinLobby(s, arg, m) IN
            /\ out.rooms = rooms
            /\ out.adapter = adapter
            /\ out.sdata = sdata
            /\ out.emits =
                  <<[ev |-> "errorMsg", to |-> {s}, msg |-> "Lobby ID required."]>>

\* a socket that plays in a lobby has sent a blank joinLobby
C11_Witness ==
    \E s \in Sockets :
        /\ emits =
              <<[ev |-> "errorMsg", to |-> {s}, msg |-> "Lobby ID required."]>>
        /\ sdata[s].lobbyId # NoLobby
        /\ s \in adapter[sdata[s].lobbyId]

\* the roomState messages among msgs
RoomStates(msgs) == SelectSeq(msgs, LAMBDA m : m.ev = "roomState")

\* C12: a makeMove that changes the room, and every newGame and resetStats
\* of a socket that holds a lobby, emits exactly one roomState, addressed to
\* the lobby's broadcast group and carrying the lobby id and the board,
\* currentPlayer, isActive and stats the room has after the handler; a
\* joinLobby with a usable lobbyId emits exactly one roomState, addressed to
\* the joiner alone, carrying the room and the mark just assigned.
C12_MutationsBroadcastSnapshot ==
    \A s \in Sockets :
        LET l == sdata[s].lobbyId IN
        /\ \A index \in LobbyIndexArgs :
              LET out == onMakeMove(s, index) IN
              (l \in DOMAIN rooms /\ Game(out.rooms[l]) # Game(rooms[l])) =>
                  BroadcastsRoom(out.emits, out.rooms, l)
        /\ l # NoLobby =>
              /\ BroadcastsRoom(onNewGame(s).emits, onNewGame(s).rooms, l)
              /\ BroadcastsRoom(onResetStats(s).emits, onResetStats(s).rooms, l)
        /\ \A arg \in LobbyArgs, m \in RequestedMarks :
              ~IsBlank(arg) =>
                  LET out == onJoinLobby(s, arg, m)
                      j == Trim(OrEmpty(arg))
                      snaps == RoomStates(out.emits)
                  IN  /\ Len(snaps) = 1
                      /\ snaps[1].to = {s}
                      /\ snaps[1].lobbyId = j
                      /\ snaps[1].yourMark = out.sdata[s].mark
                      /\ snaps[1].yourMark \in Marks
                      /\ Game(snaps[1].room) = Game(out.rooms[j])

\* an accepted move was broadcast to a lobby of three sockets
C12_Witness ==
    /\ Len(emits) = 1
    /\ emits[1].ev = "roomState"
    /\ emits[1].to = Sockets
    /\ emits[1].room.board[0] = "X"
    /\ emits[1].room.currentPlayer = "O"

\* requests r and q ask for the same turn of the same lobby: the same cell,
\* or their senders hold the same mark
SameTurn(r, q) ==
    /\ sdata[r.s].lobbyId # NoLobby
    /\ sdata[r.s].lobbyId = sdata[q.s].lobbyId
    /\ r.index.v = q.index.v \/ sdata[r.s].mark = sdata[q.s].mark

\* C13: when two makeMove events for the same turn of a lobby wait at the
\* server, the handler runs for the older one first and for the younger one
\* on the room that results: if the older one is accepted the younger one
\* changes nothing and emits nothing, so at most one of them is accepted.
C13_OneOfTwoRacingMovesWins ==
    (Len(inbox) >= 2 /\ SameTurn(inbox[1], inbox[2])) =>
        LET first == onMakeMoveIn(rooms, inbox[1].s, inbox[1].index)
            second == onMakeMoveIn(first.rooms, inbox[2].s, inbox[2].index)
        IN  first.emits # <<>> =>
                /\ second.rooms = first.rooms
                /\ second.emits = <<>>

\* two sockets that both hold O asked for different cells; the older request
\* was accepted and the younger one now waits for a turn that has passed
C13_Witness ==
    /\ Len(inbox) = 1
    /\ sdata["s2"].mark = "O" /\ sdata["s3"].mark = "O"
    /\ inbox[1] = MakeMoveEvent("s3", IntIdx(8))
    /\ Len(emits) = 1
    /\ emits[1].ev = "roomState"
    /\ emits[1].room.board = [EmptyBoard EXCEPT ![0] = "X", ![4] = "O"]
    /\ emits[1].room.currentPlayer = "X"

\* every session but the one of lobby a is in store rs what it is now
OtherSessionsKept(rs, a) ==
    /\ DOMAIN rs \ {a} = DOMAIN rooms \ {a}
    /\ \A l \in DOMAIN rooms \ {a} : Game(rs[l]) = Game(rooms[l])

\* C14: a joinLobby leaves every session but the one joined as it is, and a
\* makeMove, newGame, resetStats or disconnect of a socket leaves every
\* session but the one of the socket's stored lobby as it is: the same
\* sessions exist, with the same board, currentPlayer, isActive and stats.
C14_SessionsIndependent ==
    \A s \in Sockets :
        LET a == sdata[s].lobbyId IN
        /\ \A arg \in TwoLobbyArgs :
              OtherSessionsKept(onJoinLobby(s, arg, Null).rooms,
                                Trim(OrEmpty(arg)))
        /\ \A index \in IndexArgs :
              OtherSessionsKept(onMakeMove(s, index).rooms, a)
        /\ OtherSessionsKept(onNewGame(s).rooms, a)
        /\ OtherSessionsKept(onResetStats(s).rooms, a)
        /\ OtherSessionsKept(onDisconnect(s).rooms, a)

\* s2, who won a game in lobby B and is still in B's broadcast group, has
\* joined lobby A and moved there; the session of B is as the game left it
C14_Witness ==
    /\ DOMAIN rooms = LobbyIds
    /\ sdata["s2"] = [lobbyId |-> <<"A">>, mark |-> "X"]
    /\ "s2" \in adapter[<<"B">>]
    /\ rooms[<<"A">>].board[0] = "X"
    /\ rooms[<<"B">>].board = WonByX
    /\ ~rooms[<<"B">>].isActive
    /\ rooms[<<"B">>].stats.xWins = 1
    /\ Len(emits) = 1
    /\ emits[1].lobbyId = <<"A">>

\* C15: for every lobby, if from some point on no socket is in the lobby's
\* group any more (all that joined it have disconnected and none joins
\* again), then its session is eventually absent from the room store for
\* good, however the sockets had joined.
C15_EmptyLobbyDisposed ==
    \A l \in LobbyIds :
        <>[](adapter[l] = {}) => <>[](l \notin DOMAIN rooms)

\* C16: a session is deleted only by the disposal timeout that was set when
\* its lobby last became empty: at the moment the entry is deleted no
\* younger disposal timeout of that lobby is pending (a pending one was set
\* by a departure after a rejoin, less than the grace period ago).
C16_DisposalWaitsFullGrace ==
    [][\A l \in LobbyIds :
          (l \in DOMAIN rooms /\ l \notin DOMAIN rooms') => timers[l] = 1]_vars

\* C17: the disconnect of a socket leaves every session in the store with
\* its board, currentPlayer, isActive and stats, and a joinLobby for a lobby
\* whose session is still in the store sends the joiner a roomState with
\* the board, currentPlayer, isActive and stats that session holds.
C17_DisconnectKeepsSession ==
    /\ \A s \in Sockets :
          connected[s] =>
              LET out == onDisconnect(s) IN
              /\ DOMAIN out.rooms = DOMAIN rooms
              /\ \A l \in DOMAIN rooms : Game(out.rooms[l]) = Game(rooms[l])
    /\ \A s \in Sockets, arg \in LobbyArgs, m \in RequestedMarks :
          LET l == Trim(OrEmpty(arg)) IN
          (connected[s] /\ l \in DOMAIN rooms) =>
              LET snaps == RoomStates(onJoinLobby(s, arg, m).emits) IN
              /\ Len(snaps) = 1
              /\ snaps[1].to = {s}
              /\ Game(snaps[1].room) = Game(rooms[l])

\* both players of a started game have disconnected, a disposal timeout is
\* pending, and s3 has joined the lobby and was sent the board they left
C17_Witness ==
    /\ ~connected["s1"] /\ ~connected["s2"]
    /\ timers[<<"A">>] = 1
    /\ Len(emits) >= 1
    /\ emits[1].ev = "roomState"
    /\ emits[1].to = {"s3"}
    /\ emits[1].room.board = [EmptyBoard EXCEPT ![0] = "X", ![4] = "O"]
    /\ emits[1].room.currentPlayer = "X"
    /\ <<"A">> \in DOMAIN rooms
    /\ rooms[<<"A">>].players = <<"s3">>

\* the empty cells that complete a line of mark m: the other two cells of
\* some win-line hold m
Completable(board, m) ==
    {i \in Cells :
        /\ board[i] = Null
        /\ \E L \in WinLines : i \in L /\ \A j \in L \ {i} : board[j] = m}

\* the step places one O, on a cell of set S, and changes no other cell
PlacesOIn(S) ==
    \E i \in S : currentGameBoard' = [currentGameBoard EXCEPT ![i] = "O"]

C18_HardNeverLosesCleanGame ==
    /\ ~LineOf(currentGameBoard, "X")
    /\ gameStatistics.player = 0

\* C18: in local play against the computer at hard difficulty no line of
\* the board is ever fully X: no game ends with X completing a win-line.
C18_HardNeverLoses ==
    (gameMode = "pvc" /\ difficulty = "hard") => ~LineOf(currentGameBoard, "X")

\* no win-line of the board is fully one mark
NoLine(board) == \A m \in Marks : ~LineOf(board, m)

\* C20 (server part): an accepted makeMove counts a draw exactly when the
\* board after it is full and no win-line is fully one mark; a move that
\* fills the ninth cell and completes a line counts a win of the mover.
C20_ServerDrawIffFullNoLine ==
    \A s \in Sockets, index \in IndexArgs :
        ~C3Drops(s, index) =>
            LET l == sdata[s].lobbyId
                m == sdata[s].mark
                b == Placed(rooms[l], m, index.v)
                before == rooms[l].stats
                after == onMakeMove(s, index).rooms[l].stats
            IN  /\ after.draws = before.draws + 1 <=> BoardFull(b) /\ NoLine(b)
                /\ after.draws \in {before.draws, before.draws + 1}
                /\ (BoardFull(b) /\ LineOf(b, m)) =>
                      /\ after.draws = before.draws
                      /\ m = "X" => after.xWins = before.xWins + 1
                      /\ m = "O" => after.oWins = before.oWins + 1

\* C20 (server part): a state where an accepted move fills the ninth cell and
\* completes a line
C20_ServerWitness ==
    \E s \in Sockets, index \in IndexArgs :
        /\ ~C3Drops(s, index)
        /\ LET b == Placed(rooms[sdata[s].lobbyId], sdata[s].mark, index.v)
           IN  BoardFull(b) /\ LineOf(b, sdata[s].mark)

\* C20: in local two-player play the evaluation of a move counts a draw
\* exactly when all 9 cells are occupied and no win-line is fully one mark.
C20_LocalDrawIffFullNoLine ==
    [][(timeouts # <<>> /\ Head(timeouts).kind = "evalPlayer"
          /\ timeouts' = Tail(timeouts)) =>
          (gameStatistics'.draws = gameStatistics.draws + 1
             <=> BoardFull(currentGameBoard) /\ NoLine(currentGameBoard))]_vars

\* the marks on a board
MarkCount(board) == Cardinality({i \in Cells : board[i] # Null})

\* C21: while the client is in online mode a call of handleComputerMove,
\* also one scheduled before the lobby was joined, places no mark on the
\* local board, changes no statistics and schedules nothing; and the server
\* puts a mark on a room's board only by handling a makeMove event, as the
\* sender's mark in the cell the sender named.
C21_NoComputerMovesOnline ==
    [][/\ (onlineMode /\ timeouts # <<>> /\ Head(timeouts).kind = "computer"
           /\ timeouts' # timeouts)
          => /\ currentGameBoard' = currentGameBoard
             /\ gameStatistics' = gameStatistics
             /\ timeouts' = Tail(timeouts)
       /\ \A l \in DOMAIN rooms' :
            IF l \notin DOMAIN rooms
            THEN rooms'[l].board = EmptyBoard
            ELSE (\E i \in Cells : /\ rooms'[l].board[i] # Null
                                   /\ rooms'[l].board[i] # rooms[l].board[i])
                 => /\ inbox # <<>>
                    /\ Head(inbox).ev = "makeMove"
                    /\ inbox' = Tail(inbox)
                    /\ sdata[Head(inbox).s].lobbyId = l
                    /\ rooms'[l].board =
                          Placed(rooms[l], sdata[Head(inbox).s].mark,
                                 Head(inbox).index.v)]_vars

\* C21: a handleComputerMove call is due while the client plays in a lobby
\* and shows a mark the server sent
C21_Witness ==
    /\ onlineMode
    /\ myMark # Null
    /\ timeouts # <<>>
    /\ Head(timeouts).kind = "computer"
    /\ MarkCount(currentGameBoard) > 0
    /\ isGameCurrentlyActive

\* a cell gets a mark it did not have
MarkPlaced(before, after) ==
    \E i \in Cells : after[i] # Null /\ after[i] # before[i]

ResetsGame ==
    /\ currentGameBoard' = EmptyBoard
    /\ isGameCurrentlyActive'
    /\ gameStatistics' = gameStatistics

\* C23 as stated: New Game empties the board, activates the game, sets
\* currentPlayer to X in every mode under every starter setting and keeps
\* the statistics.
C23_NewGameRestartsAtX ==
    [][NewGameClick => (ResetsGame /\ currentPlayer' = "X")]_vars

\* C23: New Game empties the board, activates the game and keeps the
\* statistics; currentPlayer becomes X, except in local two-player mode with
\* the starter set to O, where it becomes O.
C23_NewGameRestartsAtStarter ==
    [][NewGameClick =>
         /\ ResetsGame
         /\ currentPlayer' =
               IF gameMode = "pvp" /\ ~playerXStartsFirst THEN "O" ELSE "X"]_vars

\* C23: a new game after a counted game in two-player mode with O to start
C23_Witness ==
    /\ gameMode = "pvp"
    /\ ~playerXStartsFirst
    /\ gameStatistics.totalGames = 1
    /\ currentGameBoard = EmptyBoard
    /\ isGameCurrentlyActive
    /\ currentPlayer = "O"
    /\ timeouts = <<>>

With(board, i, m) == [board EXCEPT ![i] = m]

Largest(S) == CHOOSE n \in S : \A k \in S : k <= n
Smallest(S) == CHOOSE n \in S : \A k \in S : n <= k

\* the value of a position `depth` moves below the root: 10 - depth with a
\* line of O, depth - 10 with a line of X, 0 when full without a line, else
\* the largest child value with O to move and the smallest with X to move
RECURSIVE Value(_, _, _)
Value(board, depth, oToMove) ==
    IF LineOf(board, "O") THEN 10 - depth
    ELSE IF LineOf(board, "X") THEN depth - 10
    ELSE IF BoardFull(board) THEN 0
    ELSE LET children ==
               {Value(With(board, i, IF oToMove THEN "O" ELSE "X"),
                      depth + 1, ~oToMove) : i \in EasyMoves(board)}
         IN  IF oToMove THEN Largest(children) ELSE Smallest(children)

\* the lowest empty cell among those of largest subtree value
LowestBestCell(board) ==
    LET v == [i \in EasyMoves(board) |-> Value(With(board, i, "O"), 1, FALSE)]
        best == Largest({v[i] : i \in EasyMoves(board)})
    IN  Smallest({i \in EasyMoves(board) : v[i] = best})

\* C25: on every board without a line and with an empty cell, the root call
\* minimax(board, 0, true, "O") returns the lowest-index empty cell among
\* those whose subtree value is largest, and that value as its score.
C25_MinimaxLowestBestCell ==
    (timeouts # <<>> /\ Head(timeouts).kind = "computer") =>
        LET result == minimax(currentGameBoard, 0, TRUE, "O") IN
        /\ result.index = LowestBestCell(currentGameBoard)
        /\ result.score = Value(currentGameBoard, 0, TRUE)

\* C25: the search has moved on X at 7 and 8, O at 5 and 6: cells 3 and 4
\* both win in three moves, cells 0 to 2 are worth less, O is on 3
C25_Witness ==
    /\ difficulty = "hard"
    /\ timeouts = <<EvalComputerCallback>>
    /\ currentGameBoard =
          [i \in Cells |-> IF i \in {7, 8} THEN "X"
                           ELSE IF i \in {3, 5, 6} THEN "O" ELSE Null]
    /\ LET b == With(currentGameBoard, 3, Null) IN
       /\ Value(With(b, 3, "O"), 1, FALSE) = 7
       /\ Value(With(b, 4, "O"), 1, FALSE) = 7
       /\ \A i \in {0, 1, 2} : Value(With(b, i, "O"), 1, FALSE) < 7

EmptyAmong(board, S) == {i \in S : board[i] = Null}

C27_ComputerFillsOneEmptyCell ==
    [][(/\ timeouts # <<>>
        /\ Head(timeouts).kind = "computer"
        /\ timeouts' # timeouts
        /\ ~onlineMode
        /\ NoLine(currentGameBoard)) =>
            IF isGameCurrentlyActive /\ ~BoardFull(currentGameBoard)
            THEN /\ PlacesOIn(EmptyAmong(currentGameBoard, Cells))
                 /\ timeouts' = <<EvalComputerCallback>>
                 /\ difficulty = "easy" =>
                      \A i \in EmptyAmong(currentGameBoard, Cells) :
                         ENABLED (/\ HandleComputerMove
                                  /\ currentGameBoard' =
                                        With(currentGameBoard, i, "O"))
            ELSE /\ currentGameBoard' = currentGameBoard
                 /\ timeouts' = <<>>]_vars

\* C27: the hard tier has moved on a board with six empty cells
C27_Witness ==
    /\ difficulty = "hard"
    /\ timeouts = <<EvalComputerCallback>>
    /\ currentGameBoard =
          [i \in Cells |-> IF i \in {0, 7, 8} THEN "X"
                           ELSE IF i \in {1, 4, 6} THEN "O" ELSE Null]

\* C28: minimax leaves the array it is given as it found it: after the root
\* call on a board, and after the call one level down on that board with a
\* trial O in any empty cell, every cell has the value it had before.
C28_MinimaxRestoresBoard ==
    (timeouts # <<>> /\ Head(timeouts).kind = "computer") =>
        LET b == currentGameBoard IN
        /\ minimax(b, 0, TRUE, "O").board = b
        /\ \A i \in EmptyAmong(b, Cells) :
              minimax(With(b, i, "O"), 1, FALSE, "O").board = With(b, i, "O")

\* C28: the hard tier has searched a board with six empty cells and moved:
\* the marks that were there are in place and one O is new
C28_Witness ==
    /\ difficulty = "hard"
    /\ timeouts = <<EvalComputerCallback>>
    /\ currentGameBoard =
          [i \in Cells |-> IF i \in {2, 6, 7} THEN "X"
                           ELSE IF i \in {1, 4, 8} THEN "O" ELSE Null]

\* the errorMsg a socket gets when it joins a lobby of more than two
RoomFullMsg(s) ==
    ErrorMsg({s}, "Room is full (2 players). Spectators not allowed.")

\* every roomState among the messages `msgs` that is for lobby l goes to s
ReachesSocket(msgs, l, s) ==
    \A k \in DOMAIN msgs :
        (msgs[k].ev = "roomState" /\ msgs[k].lobbyId = l) => s \in msgs[k].to

\* C29: a join that brings the lobby's group above two sockets is warned, not
\* rejected: the joiner is in the group and in the participant set, its
\* first message is the roomState snapshot and a later one is the 'Room is
\* full' errorMsg; a join that leaves the group at one or two sockets sends
\* no errorMsg; and every roomState that a later makeMove, newGame or
\* resetStats sends for a lobby goes to every socket of its group.
C29_FullRoomWarnedNotRejected ==
    /\ \A s \in Sockets, arg \in LobbyArgs, m \in RequestedMarks :
          LET l == Trim(OrEmpty(arg))
              out == onJoinLobby(s, arg, m)
              warned == \E k \in DOMAIN out.emits : out.emits[k] = RoomFullMsg(s)
          IN  (connected[s] /\ l # <<>>) =>
              /\ s \in out.adapter[l]
              /\ \E k \in DOMAIN out.rooms[l].players :
                    out.rooms[l].players[k] = s
              /\ out.emits[1] =
                    RoomStateMsg({s}, out.rooms[l], out.sdata[s].mark, l)
              /\ Cardinality(out.adapter[l]) > 2 =>
                    /\ warned
                    /\ out.emits[Len(out.emits)] = RoomFullMsg(s)
              /\ Cardinality(out.adapter[l]) <= 2 =>
                    \A k \in DOMAIN out.emits : out.emits[k].ev # "errorMsg"
    /\ \A l \in LobbyIds :
          \A s \in adapter[l], t \in Sockets :
              /\ \A index \in IndexArgs :
                    ReachesSocket(onMakeMove(t, index).emits, l, s)
              /\ ReachesSocket(onNewGame(t).emits, l, s)
              /\ ReachesSocket(onResetStats(t).emits, l, s)

\* the third socket of a lobby has just joined: it got the snapshot and the
\* warning, and it is in the group and the participant set
C29_Witness ==
    \E l \in DOMAIN rooms, s \in Sockets :
        /\ adapter[l] = Sockets
        /\ Len(rooms[l].players) = 3
        /\ rooms[l].players[3] = s
        /\ Len(emits) = 3
        /\ emits[1].ev = "roomState" /\ emits[1].to = {s}
        /\ emits[3] = RoomFullMsg(s)

\* the step is the roomState listener handling the oldest message
RendersRoomState ==
    /\ wire # <<>>
    /\ Head(wire).ev = "roomState"
    /\ wire' = Tail(wire)

C31_InactiveIffTerminal ==
    \A l \in DOMAIN rooms :
        ~rooms[l].isActive <=>
            \/ LineOf(rooms[l].board, "X")
            \/ LineOf(rooms[l].board, "O")
            \/ BoardFull(rooms[l].board)

\* a room has ended with a full board and no line
C31_Witness ==
    \E l \in DOMAIN rooms :
        /\ ~rooms[l].isActive
        /\ BoardFull(rooms[l].board)
        /\ ~LineOf(rooms[l].board, "X")
        /\ ~LineOf(rooms[l].board, "O")

\* C32: in every room each cell holds nothing, X or O, the number of X
\* marks minus the number of O marks is 0 or 1, while the room is active
\* currentPlayer is X exactly when the two numbers are equal, and the board
\* never has completed lines of both marks.
C32_MarkCountsAndTurn ==
    \A l \in DOMAIN rooms :
        LET b == rooms[l].board IN
        /\ \A i \in Cells : b[i] \in Cell
        /\ XCount(b) - OCount(b) \in {0, 1}
        /\ rooms[l].isActive =>
              (rooms[l].currentPlayer = "X" <=> XCount(b) = OCount(b))
        /\ ~(LineOf(b, "X") /\ LineOf(b, "O"))

\* an active room in which X has moved three times and O twice
C32_Witness ==
    \E l \in DOMAIN rooms :
        /\ rooms[l].isActive
        /\ XCount(rooms[l].board) = 3
        /\ OCount(rooms[l].board) = 2
        /\ rooms[l].currentPlayer = "O"

\* C33: in every room totalGames = xWins + oWins + draws, and a makeMove
\* adds 1 to totalGames exactly when it ends the room's game and otherwise
\* leaves it as it is, so that each finished game is counted once.
C33_TotalIsSumOfOutcomes ==
    \A l \in DOMAIN rooms :
        /\ rooms[l].stats.totalGames =
              rooms[l].stats.xWins + rooms[l].stats.oWins + rooms[l].stats.draws
        /\ \A s \in Sockets, index \in IndexArgs :
              LET after == onMakeMove(s, index).rooms[l] IN
              after.stats.totalGames =
                  IF rooms[l].isActive /\ ~after.isActive
                  THEN rooms[l].stats.totalGames + 1
                  ELSE rooms[l].stats.totalGames

\* a drawn game has been counted
C33_Witness ==
    \E l \in DOMAIN rooms :
        /\ rooms[l].stats = [ZeroStats EXCEPT !.draws = 1, !.totalGames = 1]
        /\ BoardFull(rooms[l].board)
        /\ ~rooms[l].isActive

\* C34: whenever exactly two sockets are in a lobby's group and both have
\* it as their lobby, one of them holds X and the other O, after any joins
\* without requestedMark and any disconnects; so while the room is active
\* one of the two holds the mark whose turn it is.
C34_TwoSocketsHoldXAndO ==
    \A l \in DOMAIN rooms :
        (/\ Cardinality(adapter[l]) = 2
         /\ \A s \in adapter[l] : sdata[s].lobbyId = l) =>
            /\ {sdata[s].mark : s \in adapter[l]} = Marks
            /\ rooms[l].isActive =>
                  \E s \in adapter[l] : sdata[s].mark = rooms[l].currentPlayer

\* C35: in a local game against the computer the numbers of X and O marks on
\* the board differ by at most 1, whatever the order of cell clicks, New
\* Game clicks, starter and mode toggles and pending timers.
C35_PvCMarkCountsBalanced ==
    (gameMode = "pvc" /\ ~onlineMode) =>
        XCount(currentGameBoard) - OCount(currentGameBoard) \in {-1, 0, 1}

\* the step runs the evaluation of a move of the game that a reset has
\* since replaced: the board it looks at is empty
StaleEvaluation ==
    /\ timeouts # <<>>
    /\ Head(timeouts).kind = "evalPlayer"
    /\ timeouts' = Tail(timeouts)
    /\ currentGameBoard = EmptyBoard

\* C36: in local two-player mode the evaluation of a move made before New
\* Game was clicked leaves currentPlayer, isProcessingMove and the board of
\* the new game as they are, and the first mark placed on an empty board is
\* the configured starter's.
C36_StaleEvaluationIsNoOp ==
    [][gameMode = "pvp" =>
          /\ StaleEvaluation =>
                /\ currentPlayer' = currentPlayer
                /\ isProcessingMove' = isProcessingMove
                /\ currentGameBoard' = currentGameBoard
          /\ (currentGameBoard = EmptyBoard /\ currentGameBoard' # EmptyBoard) =>
                \E i \in Cells :
                    currentGameBoard'[i] =
                        IF playerXStartsFirst THEN "X" ELSE "O"]_vars

\* the sum of the outcome counters of the local statistics
OutcomesCounted(st) == st.player + st.computer + st.playerX + st.playerO + st.draws

\* C37: the local engine counts each finished game once.  Every reset of
\* the board sets isGameCurrentlyActive and only the counting of a game
\* clears it, so a game is counted twice between two resets exactly when a
\* step counts while the game is no longer active: every step that raises
\* totalGames is taken in an active game, raises totalGames by 1 and raises
\* the outcome counters by 1 in all.
C37_LocalGameCountedOnce ==
    [][gameStatistics'.totalGames > gameStatistics.totalGames =>
          /\ isGameCurrentlyActive
          /\ gameStatistics'.totalGames = gameStatistics.totalGames + 1
          /\ OutcomesCounted(gameStatistics') =
                OutcomesCounted(gameStatistics) + 1]_vars

\* C38: a roomState broadcast of a lobby goes only to sockets whose current
\* lobby, the one their moves are applied to, is that lobby; a socket that
\* has since joined another lobby is not among the receivers.
C38_BroadcastOnlyToCurrentLobby ==
    \A k \in DOMAIN emits :
        (emits[k].ev = "roomState" /\ emits[k].yourMark = Null) =>
            \A s \in emits[k].to : sdata[s].lobbyId = emits[k].lobbyId

\* the step is a disposal timeout of lobby l firing
TimerFires(l) == timers'[l] = timers[l] - 1

\* C39: no step deletes a session whose lobby has a socket in its group,
\* and a disposal timeout that fires while the group is not empty leaves
\* the session in the store with its board, turn, isActive, stats and
\* participants.
C39_SessionKeptWhileJoined ==
    [][\A l \in DOMAIN rooms :
          /\ l \notin DOMAIN rooms' => adapter[l] = {}
          /\ (TimerFires(l) /\ adapter[l] # {}) =>
                /\ l \in DOMAIN rooms'
                /\ rooms'[l] = rooms[l]]_vars

\* s1 left lobby A empty after X's first move, s3 joined it, and no
\* disposal timeout is pending any more: the session still has the move
C39_Witness ==
    /\ ~connected["s1"]
    /\ timers[<<"A">>] = 0
    /\ adapter[<<"A">>] = {"s3"}
    /\ <<"A">> \in DOMAIN rooms
    /\ rooms[<<"A">>].board = [EmptyBoard EXCEPT ![0] = "X"]
    /\ rooms[<<"A">>].currentPlayer = "O"
    /\ rooms[<<"A">>].players = <<"s3">>
    /\ sdata["s3"] = [lobbyId |-> <<"A">>, mark |-> "X"]

\* C40: whenever the online client has sent a makeMove and holds the move
\* lock (isProcessingMove set, clicks disabled), the lock is released later
\* on, given that the server handles every event and every message is
\* delivered; the claim names the rendering of a roomState as what
\* releases it, and any release satisfies this formula.
C40_MoveLockReleased ==
    (onlineMode /\ isProcessingMove) ~> ~isProcessingMove

\* with one lobby and no callback of a local game pending, the lock is
\* released: every makeMove the server drops was sent while a broadcast was
\* on its way to the client
C40_MoveLockReleasedOneLobby ==
    (socket # Null /\ isProcessingMove) ~> (socket # Null /\ ~isProcessingMove)

=============================================================================
